---- MODULE Spec2Model ----
(***************************************************************************)
(* Model of the civic-event coordinator of ai-city-builder:                *)
(*   - RequestEngine (src/src/scripts/ai/request-engine.ts, second part):  *)
(*     the single-slot request lifecycle idle -> request_active ->         *)
(*     settling -> evaluating -> idle, its expiry timer, its evaluation    *)
(*     and its adaptive cooldown;                                          *)
(*   - the speech coordinator (same file, lines 807-859) and its two       *)
(*     producers, VoiceSession.drainPlaybackQueue and CitizenVoice.speak;  *)
(*   - DisasterService (src/src/scripts/sim/buildings/building.js, second  *)
(*     part): the trigger of an earthquake, the recovery of its tiles and  *)
(*     the recover_tile command.                                           *)
(* JavaScript runs one task at a time: every action below is one task (a   *)
(* timer callback, an interval tick, a tool call, a promise continuation)  *)
(* run from its start to its end or to its next await.                     *)
(***************************************************************************)
EXTENDS Integers, Sequences, FiniteSets, TLC

VARIABLES
    \* ---- the world (the City object the engine reads; owned by the simulation)
    city,                 \* [size, tiles, population, happiness]
    \* ---- RequestEngine fields (request-engine.ts 376-389)
    phase,                \* 'idle' | 'request_active' | 'settling' | 'evaluating'
    currentRequest,       \* index into requests of the in-flight request, 0 = null
    snapshotBefore,       \* CitySnapshot or NoSnapshot (null)
    settleTicksRemaining,
    expiryTimeoutId,      \* id of the armed expiry timer, 0 = null
    requests,             \* every request ever created (the objects currentRequest aliases)
    idleElapsed,          \* Date.now() - this.lastIdleTime, in ms (see AdvanceTime)
    nextCooldownMs,
    evaluateFn,           \* "null" | "set" (setEvaluateFn)
    \* ---- the JavaScript runtime around the engine
    timers,               \* pending setTimeout callbacks of the engine: [id, remaining ms]
    evalAwait,            \* evaluate() is suspended at `await this.evaluateFn(...)`
    notes,                \* what notify() was called with, in order: [kind, req, spoken]
    \* ---- observation of the last operation (not program state)
    lastCall,             \* the engine method the external actor called in the last step, or how
                          \* the evaluation callback's promise settled in it, or "none"
    lastEval,             \* what evaluate() computed in the last step, or NoEval
    lastNotify,           \* how the call of notify() in the last step ended, or "none"
    lastStatus,           \* what the last checkRequestStatus call returned, or NoStatus
    phaseLog,             \* the values the last step assigned to this.phase, in order
    ticksSinceResolved,   \* onCityChanged calls seen in settling since markResolved
    requestAge,           \* Date.now() - createdAt of the request created last, while it is active
    \* ---- the tool layer between the external actor and the engine
    toolCall,             \* the mark_request_resolved call in flight or returned last:
                          \* [state, issuedFor, result]
    \* ---- the pure functions of the engine applied to drawn arguments
    fnIn,                 \* [type, before, cur]: a request type and two snapshots
    fnOut,                \* [fn, value]: the function applied last and what it returned
    \* ---- the speech coordinator and its two producers
    speech,               \* [mayorSpeaking, citizenSpeaking, waiters, microtasks, timeouts,
                          \* elapsed]
    playbackQueue,        \* VoiceSession.playbackQueue.length
    isPlaying,            \* VoiceSession.isPlaying
    playingSources,       \* audio sources the mayor started that have not ended
    citizenEmitting,      \* CitizenVoice.speak calls between their set-flag and their finally
    failsafeFired,        \* a failsafe timeout of waitForSilence has forced silence
    \* ---- DisasterService and the city it simulates
    disasterTiles,        \* the tiles of the city: [building, damaged, recoveryProgress,
                          \* activeRecovery]; recoveryProgress is kept as the numerator of
                          \* the fraction over the totalRecoveryTicks of the tile's entry
    simTime,              \* city.simTime
    activeDisaster,       \* NoDisaster or [epicenterX, epicenterY, affectedTiles]
    lastDisasterTick,     \* <<>> for -Infinity, or <<the simTime of the last trigger>>
    disasterNotes,        \* what notifyFn and recoveryCompleteFn were called with, in order
    \* ---- observation of the last operation of the service (not program state)
    lastDisasterCall,     \* [op, success]: the operation of the last step and its result
                          \* (and `at', the coordinates given to recoverTile)
    progressShown         \* per tile <<n, total>>: the recoveryProgress n / total the tile had
                          \* when the last step called its updateDamageVisuals, <<>> if it
                          \* did not

engineVars == <<phase, currentRequest, snapshotBefore, settleTicksRemaining,
                expiryTimeoutId, requests, idleElapsed, nextCooldownMs, evaluateFn>>
runtimeVars == <<timers, evalAwait, notes>>
obsVars == <<lastCall, lastEval, lastNotify, lastStatus, phaseLog, ticksSinceResolved,
             requestAge>>
toolVars == <<toolCall>>
fnVars == <<fnIn, fnOut>>
speechVars == <<speech, playbackQueue, isPlaying, playingSources, citizenEmitting, failsafeFired>>
disasterVars == <<disasterTiles, simTime, activeDisaster, lastDisasterTick, disasterNotes,
                  lastDisasterCall, progressShown>>
vars == <<city, engineVars, runtimeVars, obsVars, toolVars, fnVars, speechVars, disasterVars>>

----------------------------------------------------------------------------
(* Bounds of the model                                                     *)

\* requests generated in one behaviour of the lifecycle
MaxRequests == 2
\* requests generated in one behaviour in which the external actor builds
MaxBuildRequests == 1
\* city.population ranges over 0..MaxPopulation
MaxPopulation == 5
\* The clock advances in steps of 30 s; the delay the engine times with a
\* timer (EXPIRY_MS) is a multiple of it.
TimeStepMs == 30 * 1000
\* the fields of a drawn snapshot range over 0 .. MaxField
MaxField == 3
\* waitForSilence promises whose failsafe timer is pending
MaxPendingWaits == 2
\* the 10 s of the failsafe timer, in units of time
FailsafeDelay == 2
\* audio chunks waiting in the mayor's playback queue
MaxChunks == 1
\* playbacks of the mayor started and not ended
MaxSources == 2
\* calls of CitizenVoice.speak in flight
MaxSpeakCalls == 2
\* city.size of the city the DisasterService simulates
DisasterCitySize == 3
\* simulation ticks in one behaviour of the DisasterService
MaxSimTime == 5
\* config.disaster scaled to the grid and to MaxSimTime: the building count a
\* disaster needs (8 in config.js), the ticks between two triggers (60), and
\* the range of a tile's totalRecoveryTicks (300 to 600).  With the least
\* totalRecoveryTicks a disaster can be over before minTicksBetweenDisasters
\* ticks have passed, so that the spacing check decides.
minBuildingsForDisaster == 6
minTicksBetweenDisasters == 4
minRecoveryTicks == 2
maxRecoveryTicks == 3

----------------------------------------------------------------------------
(* The world: a size x size grid of tiles, each with or without a building *)

\* city.size: the side of the model's grid
CitySize == 2

Coords == (0 .. CitySize - 1) \X (0 .. CitySize - 1)

NoBuilding == [type |-> "none", powered |-> FALSE, maxCount |-> 0, count |-> 0, employed |-> 0]

BuildingTypes == {"residential", "commercial", "industrial", "road", "power-plant", "power-line"}

\* A building as City.placeBuilding creates it: unpowered; a residential
\* building has room for 4 residents and none yet.
NewBuilding(type) ==
    [type |-> type, powered |-> FALSE,
     maxCount |-> IF type = "residential" THEN 4 ELSE 0,
     count |-> 0, employed |-> 0]

HasBuilding(tiles, c) == tiles[c].type # "none"

\* City.getTileNeighbors: the tiles left, right, above and below, inside the grid
TileNeighbors(size, c) ==
    {d \in (0 .. size - 1) \X (0 .. size - 1) : \/ (d[1] = c[1] /\ (d[2] = c[2] + 1 \/ d[2] = c[2] - 1))
                    \/ (d[2] = c[2] /\ (d[1] = c[1] + 1 \/ d[1] = c[1] - 1))}

RECURSIVE SumOver(_, _)
SumOver(f, S) ==
    IF S = {} THEN 0
    ELSE LET c == CHOOSE x \in S : TRUE IN f[c] + SumOver(f, S \ {c})

NoSnapshot == [none |-> TRUE]

\* RequestEngine.captureSnapshot
CaptureSnapshot(cty) ==
    LET t == cty.tiles
        grid == (0 .. cty.size - 1) \X (0 .. cty.size - 1)
        built == {c \in grid : HasBuilding(t, c)}
        OfType(ty) == {c \in built : t[c].type = ty}
        res == OfType("residential")
    IN [unpoweredCount |-> Cardinality({c \in built :
                              /\ ~t[c].powered
                              /\ t[c].type \notin {"road", "power-plant", "power-line"}}),
        residentialCapacity |-> SumOver([c \in grid |-> t[c].maxCount], res),
        population |-> cty.population,
        totalResidents |-> SumOver([c \in grid |-> t[c].count], res),
        employed |-> SumOver([c \in grid |-> t[c].employed], res),
        commercialCount |-> Cardinality(OfType("commercial")),
        industrialCount |-> Cardinality(OfType("industrial")),
        residentialCount |-> Cardinality(res),
        powerPlantCount |-> Cardinality(OfType("power-plant")),
        powerLineCount |-> Cardinality(OfType("power-line")),
        roadCount |-> Cardinality(OfType("road")),
        noRoadAccess |-> Cardinality({c \in built :
                              /\ t[c].type \notin {"road", "power-line"}
                              /\ ~\E d \in TileNeighbors(cty.size, c) : t[d].type = "road"})]

----------------------------------------------------------------------------
(* RequestEngine: the pure parts                                           *)

\* An expiry timeout of 60 seconds
EXPIRY_MS_Short == 60 * 1000

\* A settling phase of two ticks
SETTLE_TICKS_Two == 3 - 1

\* Expiry timeout: 90 seconds
EXPIRY_MS == 90 * 1000
\* How many sim ticks to wait in settling phase
SETTLE_TICKS == 3

RequestTypes == {"housing", "jobs", "power", "road", "commerce"}

\* city.happiness is read as `city.happiness ?? 50`; -1 stands for undefined
HappinessUndefined == -1

Happiness(cty) == IF cty.happiness = HappinessUndefined THEN 50 ELSE cty.happiness

Max(a, b) == IF a > b THEN a ELSE b
Min(a, b) == IF a < b THEN a ELSE b

\* detectProblems with the housing threshold at the full capacity
DetectProblems_FullCapacity(snap) ==
    (IF snap.population > 0 /\ snap.population > snap.residentialCapacity
     THEN <<"housing">> ELSE <<>>)
    \o (IF /\ snap.totalResidents > 0
           /\ (snap.totalResidents - snap.employed) > 0
           /\ (snap.commercialCount + snap.industrialCount) < snap.residentialCount
        THEN <<"jobs">> ELSE <<>>)
    \o (IF snap.unpoweredCount > 0 THEN <<"power">> ELSE <<>>)
    \o (IF snap.noRoadAccess > 0 THEN <<"road">> ELSE <<>>)
    \o (IF /\ snap.residentialCount > 0
           /\ 10 * snap.commercialCount < 3 * snap.residentialCount
        THEN <<"commerce">> ELSE <<>>)

\* RequestEngine.detectProblems, on the snapshot it captures: the categories in
\* the order the code pushes them.  x > y * 0.8 is 10x > 8y and x < y * 0.3 is
\* 10x < 3y on the integers the snapshot holds.
DetectProblems(snap) ==
    (IF snap.population > 0 /\ 10 * snap.population > 8 * snap.residentialCapacity
     THEN <<"housing">> ELSE <<>>)
    \o (IF /\ snap.totalResidents > 0
           /\ (snap.totalResidents - snap.employed) > 0
           /\ (snap.commercialCount + snap.industrialCount) < snap.residentialCount
        THEN <<"jobs">> ELSE <<>>)
    \o (IF snap.unpoweredCount > 0 THEN <<"power">> ELSE <<>>)
    \o (IF snap.noRoadAccess > 0 THEN <<"road">> ELSE <<>>)
    \o (IF /\ snap.residentialCount > 0
           /\ 10 * snap.commercialCount < 3 * snap.residentialCount
        THEN <<"commerce">> ELSE <<>>)

\* computeHappinessDelta with the progress criteria of checkRequestStatus: a
\* drop of the unpowered or of the no-access count is not counted
ComputeHappinessDelta_CountsOnly(type, before, after) ==
    CASE type = "housing" ->
           IF after.residentialCapacity > before.residentialCapacity THEN 10 ELSE -2
      [] type = "jobs" ->
           IF (after.commercialCount + after.industrialCount) >
              (before.commercialCount + before.industrialCount) THEN 10 ELSE -2
      [] type = "power" ->
           IF \/ after.powerPlantCount > before.powerPlantCount
              \/ after.powerLineCount > before.powerLineCount THEN 10 ELSE -2
      [] type = "road" ->
           IF after.roadCount > before.roadCount THEN 10 ELSE -2
      [] type = "commerce" ->
           IF after.commercialCount > before.commercialCount THEN 10 ELSE -2
      [] OTHER -> 0

\* RequestEngine.computeHappinessDelta
ComputeHappinessDelta(type, before, after) ==
    CASE type = "housing" ->
           IF after.residentialCapacity > before.residentialCapacity THEN 10 ELSE -2
      [] type = "jobs" ->
           IF (after.commercialCount + after.industrialCount) >
              (before.commercialCount + before.industrialCount) THEN 10 ELSE -2
      [] type = "power" ->
           IF \/ after.powerPlantCount > before.powerPlantCount
              \/ after.powerLineCount > before.powerLineCount
              \/ after.unpoweredCount < before.unpoweredCount THEN 10 ELSE -2
      [] type = "road" ->
           IF \/ after.roadCount > before.roadCount
              \/ after.noRoadAccess < before.noRoadAccess THEN 10 ELSE -2
      [] type = "commerce" ->
           IF after.commercialCount > before.commercialCount THEN 10 ELSE -2
      [] OTHER -> 0

\* The "ideal" criterion of checkRequestStatus for a request type
StatusIdeal(type, cur) ==
    CASE type = "housing" -> cur.population = 0 \/ cur.residentialCapacity >= cur.population
      [] type = "jobs" -> (cur.commercialCount + cur.industrialCount) >= cur.residentialCount
      [] type = "power" -> cur.unpoweredCount = 0
      [] type = "road" -> cur.noRoadAccess = 0
      [] type = "commerce" -> 10 * cur.commercialCount >= 3 * cur.residentialCount
      [] OTHER -> FALSE

\* The "progress" criterion of checkRequestStatus; false when before is null
StatusProgress(type, before, cur) ==
    IF before = NoSnapshot THEN FALSE
    ELSE CASE type = "housing" -> cur.residentialCapacity > before.residentialCapacity
           [] type = "jobs" -> (cur.commercialCount + cur.industrialCount) >
                               (before.commercialCount + before.industrialCount)
           [] type = "power" -> \/ cur.powerPlantCount > before.powerPlantCount
                                \/ cur.powerLineCount > before.powerLineCount
           [] type = "road" -> cur.roadCount > before.roadCount
           [] type = "commerce" -> cur.commercialCount > before.commercialCount
           [] OTHER -> FALSE

\* checkRequestStatus without the progress criterion
CheckRequestStatus_IdealOnly(ph, req, reqs, before, cur) ==
    IF req = 0 \/ ph # "request_active"
    THEN [resolved |-> FALSE, request |-> 0]
    ELSE [resolved |-> StatusIdeal(reqs[req].type, cur), request |-> req]

\* checkRequestStatus without the check of the phase
CheckRequestStatus_AnyPhase(ph, req, reqs, before, cur) ==
    IF req = 0
    THEN [resolved |-> FALSE, request |-> 0]
    ELSE [resolved |-> \/ StatusIdeal(reqs[req].type, cur)
                       \/ StatusProgress(reqs[req].type, before, cur),
          request |-> req]

\* RequestEngine.checkRequestStatus: the result object (detail and suggestion are
\* display strings and are left out).  It assigns to no field of the engine.
\* cur is this.captureSnapshot() ("now" in the code).
CheckRequestStatus(ph, req, reqs, before, cur) ==
    IF req = 0 \/ ph # "request_active"
    THEN [resolved |-> FALSE, request |-> 0]
    ELSE [resolved |-> \/ StatusIdeal(reqs[req].type, cur)
                       \/ StatusProgress(reqs[req].type, before, cur),
          request |-> req]

\* Math.random() - 0.5, times 8000: the jitter values the model draws
JitterSamples == {-4000, 3999}

\* RequestEngine.computeNextCooldown, jitter being (Math.random() - 0.5) * 8000
\* The cooldown is returned as computed
ClampCooldown_None(cooldown) == cooldown

\* The last line of computeNextCooldown: min 8 s, max 40 s
ClampCooldown(cooldown) == Max(8000, Min(40000, cooldown))

\* The arithmetic of computeNextCooldown on the happiness (after ?? 50), the
\* number of detected problems, the population and the jitter
CooldownFrom(happiness, nProblems, population, jitter) ==
    LET \* ((100 - happiness) / 100) * 8000 is (100 - happiness) * 80
        c1 == 25000 - (100 - happiness) * 80
        c2 == c1 - Min(nProblems * 2000, 10000)
        c3 == c2 - Min(population * 170, 5000)
        c4 == c3 + jitter
    IN ClampCooldown(c4)

ComputeNextCooldown(cty, jitter) ==
    LET snap == CaptureSnapshot(cty)
    IN CooldownFrom(Happiness(cty), Len(DetectProblems(snap)), snap.population, jitter)

----------------------------------------------------------------------------
(* RequestEngine: the operations                                           *)

NoEval == [none |-> TRUE]
NoStatus == [none |-> TRUE]

\* RequestEngine.createRequest: id is the position in requests; citizenName and
\* message are display text (the name is random, the message fixed by the type);
\* createdAt = Date.now() is kept as requestAge = 0
CreateRequest(problem, id) ==
    [id |-> id, type |-> problem, status |-> "active"]

\* notify() called without its third argument: spokenText is undefined
NoSpokenText == <<>>

\* No request has a message
RequestMessage_Empty(type) == NoSpokenText

\* The message createRequest gives a request: messages[problem], a fixed
\* non-empty text for each of the five types
RequestMessage(type) == <<"message", type>>

\* The status is not written
SetStatus_NotWritten(reqs, i, st) == reqs

\* The status is written to every request
SetStatus_Every(reqs, i, st) == [j \in 1 .. Len(reqs) |-> [reqs[j] EXCEPT !.status = st]]

SetStatus(reqs, i, st) == [reqs EXCEPT ![i].status = st]

\* Every request is returned, whatever its status
GetActiveRequests_All(reqs) == reqs

\* RequestEngine.getActiveRequests
GetActiveRequests(reqs) == SelectSeq(reqs, LAMBDA r : r.status = "active")

\* Whether the body of the notification sink fails (chatPanel.addMessage,
\* speakAsCitizen or proposeForRequest throws or rejects)
SinkFailures == {FALSE, TRUE}

\* The sink fails in the caller's own call stack
NotifyResult_Sync(fails) == IF fails THEN "threw" ELSE "returned"

\* How the call this.notify(...) ends for the engine: the sink is an async
\* function, so it hands back a promise whatever its body does, and the engine
\* does not await it: a failure of the body is a rejected promise
NotifyResult(fails) == IF fails THEN "rejected" ELSE "returned"

\* RequestEngine.transitionToIdle, on the city as it is when it runs;
\* lastIdleTime = Date.now() makes Date.now() - lastIdleTime zero
TransitionToIdle(cty) ==
    /\ phase' = "idle"
    /\ \E jitter \in JitterSamples : nextCooldownMs' = ComputeNextCooldown(cty, jitter)
    /\ idleElapsed' = 0

\* RequestEngine.tryGenerateRequest, past its two early returns
GenerateRequest(problems) ==
    \E i \in 1 .. Len(problems) :
        LET id == Len(requests) + 1
            request == CreateRequest(problems[i], id)
        IN /\ currentRequest' = id
           /\ requests' = Append(requests, request)
           /\ snapshotBefore' = CaptureSnapshot(city)
           /\ phase' = "request_active"
           /\ expiryTimeoutId' = id
           /\ timers' = timers \cup {[id |-> id, remaining |-> EXPIRY_MS]}
           /\ notes' = Append(notes, [kind |-> "new", req |-> id,
                                      spoken |-> RequestMessage(request.type)])
           /\ \E fails \in SinkFailures : lastNotify' = NotifyResult(fails)
           /\ (lastEval' = NoEval /\ UNCHANGED <<city, settleTicksRemaining, idleElapsed, nextCooldownMs,
                          evaluateFn, evalAwait>>)

\* No cooldown is waited for
CooldownPending_Never == FALSE

\* The first early return of tryGenerateRequest:
\* Date.now() - lastIdleTime < nextCooldownMs
CooldownPending == idleElapsed < nextCooldownMs

\* RequestEngine.tryGenerateRequest
TryGenerateRequest ==
    IF CooldownPending
    THEN (lastEval' = NoEval /\ lastNotify' = "none" /\ UNCHANGED <<city, engineVars, runtimeVars>>)
    ELSE IF Len(DetectProblems(CaptureSnapshot(city))) = 0
    THEN (lastEval' = NoEval /\ lastNotify' = "none" /\ UNCHANGED <<city, engineVars, runtimeVars>>)
    ELSE GenerateRequest(DetectProblems(CaptureSnapshot(city)))

\* The happiness is written as computed
ClampHappiness_None(h) == h

\* Math.max(0, Math.min(100, happiness + delta)) of evaluate
ClampHappiness(h) == Max(0, Min(100, h))

\* The try/catch around `await this.evaluateFn(...)` is left without its
\* exception only when the callback has not failed
EvaluateContinues_Uncaught(outcome) == outcome \in {"none", "resolved"}

\* The statements after the try/catch around `await this.evaluateFn(...)` run
\* whatever the callback did: there was none, its promise resolved, its promise
\* rejected, or the call threw
EvaluateContinues(outcome) == outcome \in {"none", "resolved", "rejected", "threw"}

\* RequestEngine.evaluate up to its await (or to its end when there is no
\* evaluateFn, or when the call of evaluateFn throws); it runs inside the tick
\* that ends the settling phase
Evaluate ==
    IF currentRequest = 0 \/ snapshotBefore = NoSnapshot
    THEN /\ TransitionToIdle(city)
         /\ (lastEval' = NoEval /\ lastNotify' = "none" /\ UNCHANGED <<city, currentRequest, snapshotBefore, expiryTimeoutId, requests,
                        evaluateFn, timers, evalAwait, notes>>)
    ELSE LET after == CaptureSnapshot(city)
             delta == ComputeHappinessDelta(requests[currentRequest].type, snapshotBefore, after)
             applied == ClampHappiness(Happiness(city) + delta)
             cty == [city EXCEPT !.happiness = applied]
         IN /\ city' = cty
            /\ notes' = Append(notes, [kind |-> "fulfilled", req |-> currentRequest, spoken |-> NoSpokenText])
            /\ \E fails \in SinkFailures :
                  lastNotify' = NotifyResult(fails)
            /\ \E cb \in (IF lastNotify' = "threw" THEN {"skipped"}
                         ELSE IF evaluateFn = "set" THEN {"pending", "threw"} ELSE {"none"}) :
                  /\ lastEval' = [type |-> requests[currentRequest].type,
                                  before |-> snapshotBefore, after |-> after, delta |-> delta,
                                  happinessBefore |-> city.happiness,
                                  happinessAfter |-> applied,
                                  ticks |-> ticksSinceResolved + 1,
                                  callback |-> cb]
                  /\ IF cb = "pending"
                     THEN /\ evalAwait' = TRUE
                          /\ phase' = "evaluating"
                          /\ UNCHANGED <<currentRequest, snapshotBefore, idleElapsed,
                                         nextCooldownMs>>
                     ELSE IF EvaluateContinues(cb)
                     THEN /\ currentRequest' = 0
                          /\ snapshotBefore' = NoSnapshot
                          /\ TransitionToIdle(cty)
                          /\ UNCHANGED evalAwait
                     ELSE /\ phase' = "evaluating"
                          /\ UNCHANGED <<currentRequest, snapshotBefore, idleElapsed,
                                         nextCooldownMs, evalAwait>>
            /\ UNCHANGED <<expiryTimeoutId, requests, evaluateFn, timers>>

\* RequestEngine.onCityChanged: one simulation tick
OnCityChanged ==
    /\ ticksSinceResolved' = IF phase # "settling" THEN ticksSinceResolved
                             ELSE IF settleTicksRemaining - 1 <= 0 THEN 0
                             ELSE ticksSinceResolved + 1
    /\ lastStatus' = NoStatus
    /\ CASE phase = "idle" ->
              /\ TryGenerateRequest
         [] phase = "settling" ->
              /\ settleTicksRemaining' = settleTicksRemaining - 1
              /\ IF settleTicksRemaining - 1 <= 0
                 THEN Evaluate
                 ELSE (lastEval' = NoEval /\ lastNotify' = "none" /\ UNCHANGED <<city, phase, currentRequest, snapshotBefore, expiryTimeoutId,
                                  requests, idleElapsed, nextCooldownMs, evaluateFn,
                                  runtimeVars>>)
         [] OTHER ->
              (lastEval' = NoEval /\ lastNotify' = "none" /\ UNCHANGED <<city, engineVars, runtimeVars>>)
    /\ phaseLog' = IF phase = "settling" /\ settleTicksRemaining - 1 <= 0
                   THEN IF phase' = "evaluating" THEN <<"evaluating">>
                        ELSE <<"evaluating", phase'>>
                   ELSE IF phase' # phase THEN <<phase'>> ELSE <<>>
    /\ requestAge' = IF phase = "idle" /\ phase' = "request_active" THEN 0 ELSE requestAge
    \* an exception of the sink leaves tryGenerateRequest and onCityChanged;
    \* evaluate() is async and keeps its own in its promise
    /\ lastCall' = IF phase = "idle" /\ lastNotify' = "threw" THEN "uncaught" ELSE "none"

\* markResolved returns early only when there is no current request
MarkResolvedIgnored_NoRequest == currentRequest = 0

\* markResolved returns early only in phase idle
MarkResolvedIgnored_Idle == phase = "idle" \/ currentRequest = 0

\* The timer is left armed
ClearTimeout_Skipped(ts, id) == ts

\* clearTimeout(id) on the runtime's pending timers
ClearTimeout(ts, id) == {t \in ts : t.id # id}

\* The early return of markResolved
MarkResolvedIgnored == phase # "request_active" \/ currentRequest = 0

\* RequestEngine.markResolved: the mayor's "resolved" signal
MarkResolved ==
    /\ lastCall' = "markResolved"
    /\ lastStatus' = NoStatus
    /\ phaseLog' = IF MarkResolvedIgnored THEN <<>> ELSE <<"settling">>
    /\ IF MarkResolvedIgnored
       THEN (lastEval' = NoEval /\ lastNotify' = "none" /\ UNCHANGED <<city, engineVars, runtimeVars, ticksSinceResolved, requestAge>>)
       ELSE /\ IF expiryTimeoutId # 0
               THEN /\ timers' = ClearTimeout(timers, expiryTimeoutId)
                    /\ expiryTimeoutId' = 0
               ELSE UNCHANGED <<timers, expiryTimeoutId>>
            /\ requests' = SetStatus(requests, currentRequest, "fulfilled")
            /\ phase' = "settling"
            /\ settleTicksRemaining' = SETTLE_TICKS
            /\ ticksSinceResolved' = 0
            /\ requestAge' = 0
            /\ (lastEval' = NoEval /\ lastNotify' = "none" /\ UNCHANGED <<city, currentRequest, snapshotBefore, idleElapsed, nextCooldownMs,
                           evaluateFn, evalAwait, notes>>)

\* RequestEngine.expireRequest
ExpireRequest ==
    IF phase # "request_active" \/ currentRequest = 0
    THEN lastNotify' = "none" /\ UNCHANGED <<city, engineVars, evalAwait, notes>>
    ELSE /\ requests' = SetStatus(requests, currentRequest, "expired")
         /\ expiryTimeoutId' = 0
         /\ notes' = Append(notes, [kind |-> "failed", req |-> currentRequest, spoken |-> NoSpokenText])
         /\ \E fails \in SinkFailures :
               /\ lastNotify' = NotifyResult(fails)
               /\ IF NotifyResult(fails) = "threw"
                  THEN UNCHANGED <<phase, currentRequest, snapshotBefore, idleElapsed,
                                   nextCooldownMs>>
                  ELSE /\ currentRequest' = 0
                       /\ snapshotBefore' = NoSnapshot
                       /\ TransitionToIdle(city)
         /\ UNCHANGED <<city, settleTicksRemaining, evaluateFn, evalAwait>>

\* The callback of setTimeout(() => this.expireRequest(), EXPIRY_MS) runs: the
\* timer is due and leaves the runtime's timer list
ExpiryTimerFires ==
    \E t \in timers :
        /\ t.remaining <= 0
        /\ timers' = timers \ {t}
        /\ lastCall' = "none"
        /\ ExpireRequest
        /\ phaseLog' = IF phase' = phase THEN <<>> ELSE <<"idle">>
        /\ lastStatus' = NoStatus
        /\ requestAge' = IF phase' = phase THEN requestAge ELSE 0
        /\ (lastEval' = NoEval /\ UNCHANGED <<ticksSinceResolved>>)

\* evaluate() resumes after `await this.evaluateFn(...)`: the callback's promise
\* has resolved, or it has rejected and the catch block has logged it
EvaluateResume ==
    /\ evalAwait
    /\ evalAwait' = FALSE
    /\ lastStatus' = NoStatus
    /\ \E outcome \in {"resolved", "rejected"} :
          /\ lastCall' = outcome
          /\ IF EvaluateContinues(outcome)
             THEN /\ phaseLog' = <<"idle">>
                  /\ currentRequest' = 0
                  /\ snapshotBefore' = NoSnapshot
                  /\ TransitionToIdle(city)
             ELSE /\ phaseLog' = <<>>
                  /\ UNCHANGED <<phase, currentRequest, snapshotBefore, idleElapsed,
                                 nextCooldownMs>>
    /\ (lastEval' = NoEval /\ lastNotify' = "none" /\ UNCHANGED <<city, settleTicksRemaining, expiryTimeoutId, requests, evaluateFn,
                   timers, notes, ticksSinceResolved, requestAge>>)

\* The tool result before the handler has run
NoResult == [none |-> TRUE]

\* No mark_request_resolved call has been made
NoToolCall == [state |-> "none", issuedFor |-> 0, result |-> NoResult]

\* What the handler of mark_request_resolved returns: a constant, whatever
\* markResolved did
MarkResolvedToolResult == [success |-> TRUE]

\* The external actor decides that the request it sees is resolved and sends
\* the function call mark_request_resolved; the call carries no argument and
\* travels to the tool handler. issuedFor keeps which request the actor meant.
IssueMarkResolved ==
    /\ toolCall.state # "sent"
    /\ phase = "request_active"
    /\ currentRequest # 0
    /\ toolCall' = [state |-> "sent", issuedFor |-> currentRequest, result |-> NoResult]
    /\ lastCall' = "none"
    /\ lastStatus' = NoStatus
    /\ lastEval' = NoEval
    /\ lastNotify' = "none"
    /\ phaseLog' = <<>>
    /\ UNCHANGED <<city, engineVars, runtimeVars, ticksSinceResolved, requestAge>>

\* The handler of the mark_request_resolved tool runs: it calls
\* requestEngine.markResolved() and returns its result
ExecuteMarkResolved ==
    /\ toolCall.state = "sent"
    /\ MarkResolved
    /\ toolCall' = [toolCall EXCEPT !.state = "returned", !.result = MarkResolvedToolResult]

\* A call of checkRequestStatus (the ask_citizen tool)
CallCheckRequestStatus ==
    /\ lastCall' = "checkRequestStatus"
    /\ lastStatus' = CheckRequestStatus(phase, currentRequest, requests, snapshotBefore,
                                        CaptureSnapshot(city))
    /\ phaseLog' = <<>>
    /\ (lastEval' = NoEval /\ lastNotify' = "none" /\ UNCHANGED <<city, engineVars, runtimeVars, ticksSinceResolved, requestAge>>)

----------------------------------------------------------------------------
(* The world around the engine: the external actor's construction commands *)
(* and the simulation's own updates of the city                            *)

\* place_building commands the external actor may issue: <<coordinates, type>>
PlaceCommands == {<<(<<0, 1>>), "residential">>}

\* values the simulation may give city.population
PopulationSamples == {0, MaxPopulation}

\* values city.happiness may hold when the engine is constructed
HappinessSamples == {HappinessUndefined, 1, 95}

\* The city at construction: no building yet
InitialTiles == [c \in Coords |-> NoBuilding]

\* CityAPI.placeBuilding: refused on an occupied tile
PlaceBuilding ==
    \E cmd \in PlaceCommands :
        /\ ~HasBuilding(city.tiles, cmd[1])
        /\ city' = [city EXCEPT !.tiles[cmd[1]] = NewBuilding(cmd[2])]

\* The simulation changes the population
SimPopulation ==
    \E p \in PopulationSamples :
        /\ p # city.population
        /\ city' = [city EXCEPT !.population = p]

\* A step of the world: the engine is not involved
WorldStep(A) ==
    /\ A
    /\ lastCall' = "none"
    /\ lastStatus' = NoStatus
    /\ lastEval' = NoEval
    /\ lastNotify' = "none"
    /\ phaseLog' = <<>>
    /\ UNCHANGED <<engineVars, runtimeVars, ticksSinceResolved, requestAge>>

\* Date.now() - lastIdleTime is compared with nextCooldownMs only, which is at
\* most 40 s: every larger difference is kept as IdleElapsedCap
IdleElapsedCap == 2 * TimeStepMs

\* Time passes by one step; a timer that is due runs before the clock moves on.
\* The engine reads the clock through differences only (Date.now() -
\* lastIdleTime, the delay of setTimeout), so the clock is kept as these
\* differences: a step adds to the elapsed times and takes from the timers.
\* lastIdleTime is read in phase idle only and every entry to idle sets it, so
\* the time elapsed since it is advanced in phase idle only.
AdvanceTime ==
    /\ \A t \in timers : t.remaining > 0
    /\ timers' = {[t EXCEPT !.remaining = t.remaining - TimeStepMs] : t \in timers}
    /\ idleElapsed' = IF phase = "idle" THEN Min(idleElapsed + TimeStepMs, IdleElapsedCap)
                      ELSE idleElapsed
    /\ requestAge' = IF phase = "request_active" THEN requestAge + TimeStepMs ELSE requestAge
    /\ lastCall' = "none"
    /\ lastStatus' = NoStatus
    /\ lastEval' = NoEval
    /\ lastNotify' = "none"
    /\ phaseLog' = <<>>
    /\ UNCHANGED <<city, phase, currentRequest, snapshotBefore, settleTicksRemaining,
                   expiryTimeoutId, requests, nextCooldownMs, evaluateFn, evalAwait, notes,
                   ticksSinceResolved>>

----------------------------------------------------------------------------
(* The pure functions of the engine on drawn arguments                     *)

NoInput == [none |-> TRUE]
NoOutput == [fn |-> "none", value |-> 0]

\* The fields of a CitySnapshot
SnapshotFields ==
    {"unpoweredCount", "residentialCapacity", "population", "totalResidents", "employed",
     "commercialCount", "industrialCount", "residentialCount", "powerPlantCount",
     "powerLineCount", "roadCount", "noRoadAccess"}

BaseSnapshot == [f \in SnapshotFields |-> 1]

\* A snapshot of a city of 50 inhabitants with room for 40 (ten full houses)
CrowdedSnapshot == [BaseSnapshot EXCEPT !["population"] = 50, !["residentialCapacity"] = 40]

\* Snapshots taken at request creation: every field is 1 but at most one field,
\* which is anything in 0 .. MaxField; and the crowded city
BeforeSamples ==
    {[BaseSnapshot EXCEPT ![f] = v] : f \in SnapshotFields, v \in 0 .. MaxField}
        \cup {CrowdedSnapshot}

\* Snapshots taken later: at most two fields have moved by one (or one field by
\* two), or two residential buildings (capacity 4 each) have been built
CurSamples(before) ==
    {s \in {[f \in SnapshotFields |->
                before[f] + (IF f = f1 THEN d1 ELSE 0) + (IF f = f2 THEN d2 ELSE 0)] :
            f1 \in SnapshotFields, f2 \in SnapshotFields, d1 \in {-1, 0, 1}, d2 \in {-1, 0, 1}} :
        \A f \in SnapshotFields : s[f] >= 0}
        \cup {[before EXCEPT !["residentialCapacity"] = @ + 8]}

\* computeHappinessDelta(request, before, after) on the drawn arguments
ApplyComputeHappinessDelta ==
    /\ fnOut' = [fn |-> "computeHappinessDelta",
                 value |-> ComputeHappinessDelta(fnIn.type, fnIn.before, fnIn.cur)]
    /\ UNCHANGED fnIn

\* checkRequestStatus() of an engine in phase request_active whose current
\* request has the drawn type, whose snapshotBefore is the drawn before and
\* whose captureSnapshot() returns the drawn cur
ApplyCheckRequestStatus ==
    /\ fnOut' = [fn |-> "checkRequestStatus",
                 value |-> CheckRequestStatus("request_active", 1,
                                              <<CreateRequest(fnIn.type, 1)>>,
                                              fnIn.before, fnIn.cur)]
    /\ UNCHANGED fnIn

\* detectProblems() of an engine whose captureSnapshot() returns the drawn cur
ApplyDetectProblems ==
    /\ fnOut' = [fn |-> "detectProblems", value |-> DetectProblems(fnIn.cur)]
    /\ UNCHANGED fnIn

\* Arguments of the cooldown arithmetic: happiness at the ends of, next to the
\* ends of and inside [0, 100]; every number of problems (there are five
\* categories); populations around the cap of the population term (5000 / 170
\* is between 29 and 30) and far beyond; (Math.random() - 0.5) * 8000 at its
\* least, in the middle and next to its supremum
CooldownHappinessSamples == {0, 1, 50, 99, 100}
CooldownProblemCounts == 0 .. Cardinality(RequestTypes)
CooldownPopulationSamples == {0, 1, 29, 30, 1000}
CooldownJitterSamples == {-4000, 0, 3999}

\* computeNextCooldown() of an engine whose city has the drawn happiness and
\* population, whose detectProblems() returns the drawn number of categories,
\* at the drawn value of the jitter
ApplyComputeNextCooldown ==
    /\ fnOut' = [fn |-> "computeNextCooldown",
                 value |-> CooldownFrom(fnIn.happiness, fnIn.problems,
                                        fnIn.population, fnIn.jitter)]
    /\ UNCHANGED fnIn

----------------------------------------------------------------------------
(* The speech coordinator and its two producers.  speech holds the module  *)
(* variables mayorSpeaking, citizenSpeaking and waiters, and the two parts *)
(* of the runtime they live in: microtasks, the continuations of resolved  *)
(* waitForSilence promises in the order they will run ("mayor": the rest   *)
(* of drainPlaybackQueue; "citizen": the rest of speak), and timeouts, the *)
(* waiters whose 10 s failsafe timer is pending, with elapsed, the time     *)
(* since each pending timer was set.  Time is counted in units of which     *)
(* FailsafeDelay make up the 10 s; a task and the microtasks it leaves take *)
(* no time, and a timer runs when its delay has elapsed, before time goes   *)
(* on.                                                                     *)

SpeechQuiet ==
    [mayorSpeaking |-> FALSE, citizenSpeaking |-> FALSE, waiters |-> <<>>,
     microtasks |-> <<>>, timeouts |-> {},
     elapsed |-> [n \in 1 .. MaxPendingWaits |-> 0]]

\* flushWaiters calling the resolvers last to first
FlushWaiters_Reversed(s) ==
    IF s.mayorSpeaking \/ s.citizenSpeaking THEN s
    ELSE [s EXCEPT !.waiters = <<>>,
                   !.microtasks = @ \o [i \in 1 .. Len(s.waiters) |->
                                           s.waiters[Len(s.waiters) + 1 - i].who]]

\* flushWaiters without its test of the flags
FlushWaiters_Always(s) ==
    [s EXCEPT !.waiters = <<>>,
              !.microtasks = @ \o [i \in 1 .. Len(s.waiters) |-> s.waiters[i].who]]

\* flushWaiters: every waiter's promise resolves, in order
FlushWaiters(s) ==
    IF s.mayorSpeaking \/ s.citizenSpeaking THEN s
    ELSE [s EXCEPT !.waiters = <<>>,
                   !.microtasks = @ \o [i \in 1 .. Len(s.waiters) |-> s.waiters[i].who]]

\* setMayorSpeaking
SetMayorSpeaking(s, speaking) ==
    IF speaking THEN [s EXCEPT !.mayorSpeaking = TRUE]
    ELSE FlushWaiters([s EXCEPT !.mayorSpeaking = FALSE])

\* setCitizenSpeaking
SetCitizenSpeaking(s, speaking) ==
    IF speaking THEN [s EXCEPT !.citizenSpeaking = TRUE]
    ELSE FlushWaiters([s EXCEPT !.citizenSpeaking = FALSE])

\* The resolvers in waiters, by the number of their failsafe timer
WaiterIds(s) == {s.waiters[i].id : i \in 1 .. Len(s.waiters)}

\* waitForSilence without its setTimeout
WaitForSilence_NoFailsafe(s, who) ==
    IF ~s.mayorSpeaking /\ ~s.citizenSpeaking
    THEN [s EXCEPT !.microtasks = Append(@, who)]
    ELSE LET id == CHOOSE n \in 1 .. MaxPendingWaits : n \notin WaiterIds(s)
         IN [s EXCEPT !.waiters = Append(@, [id |-> id, who |-> who])]

\* `await waitForSilence()` called by who: the promise is resolved at once and
\* the caller's continuation is the next microtask, or the resolver is pushed to
\* waiters and its failsafe timer is set.  The resolver is named by a number no
\* pending timer bears.
WaitForSilence(s, who) ==
    IF ~s.mayorSpeaking /\ ~s.citizenSpeaking
    THEN [s EXCEPT !.microtasks = Append(@, who)]
    ELSE LET id == CHOOSE n \in 1 .. MaxPendingWaits : n \notin s.timeouts
         IN [s EXCEPT !.waiters = Append(@, [id |-> id, who |-> who]),
                      !.timeouts = @ \cup {id},
                      !.elapsed[id] = 0]

\* The runtime takes a new task when no microtask is left
TaskReady == speech.microtasks = <<>>

\* waitForSilence may set one more failsafe timer
CanWait == Cardinality(speech.timeouts) < MaxPendingWaits

\* Calls of who that are suspended at `await waitForSilence()`
Suspended(who) ==
    Len(SelectSeq(speech.waiters, LAMBDA w : w.who = who))
        + Len(SelectSeq(speech.microtasks, LAMBDA m : m = who))

\* VoiceSession.drainPlaybackQueue up to its await, with q chunks queued
DrainPlaybackQueue(q) ==
    IF q = 0
    THEN /\ isPlaying' = FALSE
         /\ speech' = SetMayorSpeaking(speech, FALSE)
    ELSE /\ isPlaying' = TRUE
         /\ speech' = WaitForSilence(SetMayorSpeaking(speech, FALSE), "mayor")

\* VoiceSession.handleMessage on a message with an audio part: enqueueAudio
MayorAudioChunk ==
    /\ TaskReady /\ CanWait
    /\ playbackQueue < MaxChunks
    /\ playingSources + Suspended("mayor") < MaxSources
    /\ playbackQueue' = playbackQueue + 1
    /\ IF ~isPlaying THEN DrainPlaybackQueue(playbackQueue + 1)
       ELSE UNCHANGED <<speech, isPlaying>>
    /\ UNCHANGED <<playingSources, citizenEmitting, failsafeFired>>

\* VoiceSession.handleMessage on a message with turnComplete
MayorTurnComplete ==
    /\ TaskReady /\ CanWait
    /\ playingSources + Suspended("mayor") < MaxSources
    /\ DrainPlaybackQueue(playbackQueue)
    /\ UNCHANGED <<playbackQueue, playingSources, citizenEmitting, failsafeFired>>

\* drainPlaybackQueue after its await: the flag is set, the queue is merged into
\* one buffer and its playback starts
MayorContinue ==
    /\ speech.microtasks # <<>> /\ Head(speech.microtasks) = "mayor"
    /\ speech' = SetMayorSpeaking([speech EXCEPT !.microtasks = Tail(@)], TRUE)
    /\ playbackQueue' = 0
    /\ playingSources' = playingSources + 1
    /\ UNCHANGED <<isPlaying, citizenEmitting, failsafeFired>>

\* source.onended of a playback the mayor started
MayorSourceEnded ==
    /\ TaskReady
    /\ playbackQueue > 0 => CanWait
    /\ playingSources > 0
    /\ playingSources' = playingSources - 1
    /\ IF playbackQueue > 0 THEN DrainPlaybackQueue(playbackQueue)
       ELSE /\ isPlaying' = FALSE
            /\ speech' = SetMayorSpeaking(speech, FALSE)
    /\ UNCHANGED <<playbackQueue, citizenEmitting, failsafeFired>>

\* CitizenVoice.speak up to its first await
CitizenSpeak ==
    /\ TaskReady /\ CanWait
    /\ citizenEmitting + Suspended("citizen") < MaxSpeakCalls
    /\ speech' = WaitForSilence(SetCitizenSpeaking(speech, FALSE), "citizen")
    /\ UNCHANGED <<playbackQueue, isPlaying, playingSources, citizenEmitting, failsafeFired>>

\* speak after `await waitForSilence()`: the flag is set and the text is sent
CitizenContinue ==
    /\ speech.microtasks # <<>> /\ Head(speech.microtasks) = "citizen"
    /\ speech' = SetCitizenSpeaking([speech EXCEPT !.microtasks = Tail(@)], TRUE)
    /\ citizenEmitting' = citizenEmitting + 1
    /\ UNCHANGED <<playbackQueue, isPlaying, playingSources, failsafeFired>>

\* speak reaches its finally block (the playback is done, the session is not
\* connected, or an await has thrown)
CitizenFinish ==
    /\ TaskReady
    /\ citizenEmitting > 0
    /\ speech' = SetCitizenSpeaking(speech, FALSE)
    /\ citizenEmitting' = citizenEmitting - 1
    /\ UNCHANGED <<playbackQueue, isPlaying, playingSources, failsafeFired>>

\* A failsafe timer runs whenever the runtime takes a task
FailsafeDue_AtOnce(s, id) == TRUE

\* The delay of a failsafe timer has elapsed
FailsafeDue(s, id) == s.elapsed[id] >= FailsafeDelay

\* Time goes on by one unit while no pending timer is due
ClockAdvances ==
    /\ TaskReady
    /\ speech.timeouts # {}
    /\ \A id \in speech.timeouts : ~FailsafeDue(speech, id)
    /\ speech' = [speech EXCEPT
                     !.elapsed = [n \in 1 .. MaxPendingWaits |->
                                     IF n \in speech.timeouts THEN @[n] + 1 ELSE @[n]]]
    /\ UNCHANGED <<playbackQueue, isPlaying, playingSources, citizenEmitting, failsafeFired>>

\* Timers of one delay run in the order in which they were set: the timer of
\* a queued resolver runs before the timers of the resolvers queued behind it
TimerInOrder(s, id) == \A i \in 1 .. Len(s.waiters) : s.waiters[i].id = id => i = 1

\* The timer forces silence although its resolver has left the queue
StaleFailsafe_ClearsFlags(s, id) ==
    [s EXCEPT !.timeouts = @ \ {id}, !.elapsed[id] = 0,
              !.mayorSpeaking = FALSE, !.citizenSpeaking = FALSE]

\* The failsafe callback when waiters.indexOf(resolve) is -1 (the resolver was
\* called by a flush): the body of the if is skipped, the timer is spent
StaleFailsafe(s, id) == [s EXCEPT !.timeouts = @ \ {id}, !.elapsed[id] = 0]

\* The failsafe timer of a waitForSilence promise runs
FailsafeFires ==
    /\ TaskReady
    /\ \E id \in speech.timeouts :
          LET idx == {i \in 1 .. Len(speech.waiters) : speech.waiters[i].id = id}
          IN /\ FailsafeDue(speech, id)
             /\ TimerInOrder(speech, id)
             /\ IF idx = {}
                THEN /\ speech' = StaleFailsafe(speech, id)
                     /\ UNCHANGED failsafeFired
                ELSE LET i == CHOOSE j \in idx : TRUE
                     IN /\ speech' = [speech EXCEPT
                               !.timeouts = @ \ {id},
                               !.elapsed[id] = 0,
                               !.waiters = SubSeq(@, 1, i - 1) \o SubSeq(@, i + 1, Len(@)),
                               !.mayorSpeaking = FALSE,
                               !.citizenSpeaking = FALSE,
                               !.microtasks = Append(@, speech.waiters[i].who)]
                        /\ failsafeFired' = TRUE
    /\ UNCHANGED <<playbackQueue, isPlaying, playingSources, citizenEmitting>>

----------------------------------------------------------------------------
(* DisasterService.  One action is one call of simulate (a simulation     *)
(* tick), of recoverTile (the recover_tile command) or of the city API.   *)

\* config.disaster: the values config.js ships
minAffectedSize == 2
maxAffectedSize == 3
activeRecoveryMultiplier == 5

DisasterCoords == (0 .. DisasterCitySize - 1) \X (0 .. DisasterCitySize - 1)

NoDisaster == [none |-> TRUE]

\* A tile as the Tile class declares it, with or without a building
NewTile(building) ==
    [building |-> building, damaged |-> FALSE, recoveryProgress |-> 0, activeRecovery |-> FALSE]

\* tryTriggerDisaster: the loop that counts the tiles with a building
BuildingCount(tiles) == Cardinality({c \in DisasterCoords : tiles[c].building})

\* Any number of buildings is enough
TooFewBuildings_Never(count) == FALSE

\* tryTriggerDisaster: buildingCount < cfg.minBuildingsForDisaster
TooFewBuildings(count) == count < minBuildingsForDisaster

\* No spacing between two disasters
TooSoon_Never(now, last) == FALSE

\* tryTriggerDisaster: city.simTime - this.lastDisasterTick <
\* cfg.minTicksBetweenDisasters; with lastDisasterTick = -Infinity the
\* difference is Infinity
TooSoon(now, last) ==
    last # <<>> /\ now - last[1] < minTicksBetweenDisasters

\* The totalRecoveryTicks drawn for the tiles of one disaster (one
\* Math.random() per tile): every tile the least, every tile the most, or the
\* least and the most in a chequered pattern
RecoveryTickSamples ==
    {[c \in DisasterCoords |-> minRecoveryTicks],
     [c \in DisasterCoords |-> maxRecoveryTicks],
     [c \in DisasterCoords |-> IF (c[1] + c[2]) % 2 = 0 THEN minRecoveryTicks
                               ELSE maxRecoveryTicks]}

\* sizeX and sizeY of tryTriggerDisaster
AffectedSizes == minAffectedSize .. maxAffectedSize

\* triggerDisaster: the affected area, clipped to the grid, as the entries the
\* two nested loops push (x outside, y inside)
AffectedArea(epicenterX, epicenterY, sizeX, sizeY, totals) ==
    LET startX == Max(0, epicenterX - (sizeX \div 2))
        startY == Max(0, epicenterY - (sizeY \div 2))
        endX == Min(DisasterCitySize - 1, startX + sizeX - 1)
        endY == Min(DisasterCitySize - 1, startY + sizeY - 1)
        height == endY - startY + 1
        width == endX - startX + 1
    IN [i \in 1 .. width * height |->
            LET x == startX + ((i - 1) \div height)
                y == startY + ((i - 1) % height)
            IN [x |-> x, y |-> y, totalRecoveryTicks |-> totals[<<x, y>>]]]

\* The coordinates of the entries of a list of affected tiles
EntryCoords(affectedTiles) ==
    {<<affectedTiles[i].x, affectedTiles[i].y>> : i \in 1 .. Len(affectedTiles)}

\* The building of a tile of the affected area is left standing
DamagedTile_BuildingStands(tile) ==
    [tile EXCEPT !.damaged = TRUE, !.recoveryProgress = 0]

\* triggerDisaster, for one tile of the affected area: city.bulldoze(x, y) if
\* it has a building, tile.damaged = true, tile.recoveryProgress = 0
DamagedTile(tile) ==
    [tile EXCEPT !.building = FALSE, !.damaged = TRUE, !.recoveryProgress = 0]

\* DisasterService.triggerDisaster
TriggerDisaster(epicenterX, epicenterY, sizeX, sizeY, totals) ==
    LET affectedTiles == AffectedArea(epicenterX, epicenterY, sizeX, sizeY, totals)
        area == EntryCoords(affectedTiles)
        hit == [c \in DisasterCoords |->
                   IF c \in area THEN DamagedTile(disasterTiles[c]) ELSE disasterTiles[c]]
        destroyedCount == Cardinality({c \in area : ~hit[c].building})
    IN /\ disasterTiles' = hit
       /\ activeDisaster' = [epicenterX |-> epicenterX, epicenterY |-> epicenterY,
                             affectedTiles |-> affectedTiles]
       /\ lastDisasterTick' = <<simTime>>
       /\ disasterNotes' = Append(disasterNotes,
                                  [kind |-> "disaster", tick |-> simTime,
                                   affectedTileCount |-> Len(affectedTiles),
                                   destroyedBuildingCount |-> destroyedCount])

\* A call that leaves the service and the tiles as they are
DisasterUnchanged ==
    UNCHANGED <<disasterTiles, activeDisaster, lastDisasterTick, disasterNotes>>

\* DisasterService.tryTriggerDisaster; the Bernoulli trial
\* Math.random() > cfg.disasterChance passes or not
TryTriggerDisaster ==
    LET buildingTiles == {c \in DisasterCoords : disasterTiles[c].building}
    IN IF TooFewBuildings(BuildingCount(disasterTiles)) THEN DisasterUnchanged
       ELSE IF TooSoon(simTime, lastDisasterTick) THEN DisasterUnchanged
       ELSE \E passes \in BOOLEAN :
               IF ~passes \/ buildingTiles = {} THEN DisasterUnchanged
               ELSE \E epicenter \in buildingTiles, sizeX \in AffectedSizes,
                       sizeY \in AffectedSizes, totals \in RecoveryTickSamples :
                       TriggerDisaster(epicenter[1], epicenter[2], sizeX, sizeY, totals)

\* The progress is written as summed
ClampProgress_None(progress, total) == progress

\* The progress stays as it is
AdvancedProgress_Stalled(tile, entry) == tile.recoveryProgress

\* Math.min(1, progress) of advanceRecovery, on numerators over total
ClampProgress(progress, total) == Min(total, progress)

\* advanceRecovery: the value the loop writes to the recoveryProgress of an
\* entry's tile before it looks whether the tile has recovered
AdvancedProgress(tile, entry) ==
    ClampProgress(tile.recoveryProgress +
                      (IF tile.activeRecovery THEN activeRecoveryMultiplier ELSE 1),
                  entry.totalRecoveryTicks)

\* The entry of a list of affected tiles at coordinates c
EntryAt(affectedTiles, c) ==
    CHOOSE e \in {affectedTiles[i] : i \in 1 .. Len(affectedTiles)} : <<e.x, e.y>> = c

NothingShown == [c \in DisasterCoords |-> <<>>]

\* advanceRecovery never finds the list empty
RecoveryComplete_Never(affectedTiles) == FALSE

\* advanceRecovery, after the splices: "All recovered?"
RecoveryComplete(affectedTiles) == Len(affectedTiles) = 0

\* DisasterService.advanceRecovery
AdvanceRecovery ==
    LET entries == activeDisaster.affectedTiles
        Written(c) == AdvancedProgress(disasterTiles[c], EntryAt(entries, c))
        Recovered(e) == Written(<<e.x, e.y>>) >= e.totalRecoveryTicks
        StillDamaged(e) == ~Recovered(e)
        \* the splice of every recovered entry
        remaining == SelectSeq(entries, StillDamaged)
    IN /\ disasterTiles' =
              [c \in DisasterCoords |->
                  IF c \notin EntryCoords(entries) THEN disasterTiles[c]
                  ELSE IF Recovered(EntryAt(entries, c))
                  \* damaged = false, recoveryProgress = 0, and
                  \* clearDamageVisuals calls setActiveRecovery(false)
                  THEN [disasterTiles[c] EXCEPT !.damaged = FALSE, !.recoveryProgress = 0,
                                                !.activeRecovery = FALSE]
                  ELSE [disasterTiles[c] EXCEPT !.recoveryProgress = Written(c)]]
       /\ progressShown' = [c \in DisasterCoords |->
                                IF c \in EntryCoords(entries)
                                THEN <<Written(c), EntryAt(entries, c).totalRecoveryTicks>>
                                ELSE <<>>]
       /\ IF RecoveryComplete(remaining)
          THEN /\ activeDisaster' = NoDisaster
               /\ disasterNotes' = Append(disasterNotes,
                                          [kind |-> "recovered", tick |-> simTime,
                                           affectedTileCount |-> 0,
                                           destroyedBuildingCount |-> 0])
          ELSE /\ activeDisaster' = [activeDisaster EXCEPT !.affectedTiles = remaining]
               /\ UNCHANGED disasterNotes
       /\ UNCHANGED lastDisasterTick

\* DisasterService.simulate
Simulate ==
    IF activeDisaster = NoDisaster
    THEN TryTriggerDisaster /\ progressShown' = NothingShown
    ELSE AdvanceRecovery

\* One simulation tick: the services of the city simulate, then the tick is
\* counted in city.simTime
SimulateTick ==
    /\ simTime < MaxSimTime
    /\ Simulate
    /\ simTime' = simTime + 1
    /\ lastDisasterCall' = [op |-> "simulate", success |-> TRUE]

\* The coordinates the recover_tile command is called with
RecoverCommands == {<<0, 0>>, <<1, 1>>}

\* recoverTile without its test of the tile's flag
RecoverTileSucceeds_Again(x, y) ==
    /\ activeDisaster # NoDisaster
    /\ <<x, y>> \in EntryCoords(activeDisaster.affectedTiles)

\* DisasterService.recoverTile(city, x, y): whether the call succeeds
RecoverTileSucceeds(x, y) ==
    /\ activeDisaster # NoDisaster
    /\ <<x, y>> \in EntryCoords(activeDisaster.affectedTiles)
    /\ ~disasterTiles[<<x, y>>].activeRecovery

\* DisasterService.recoverTile
RecoverTile ==
    \E c \in RecoverCommands :
        /\ lastDisasterCall' = [op |-> "recoverTile", at |-> c,
                                success |-> RecoverTileSucceeds(c[1], c[2])]
        /\ disasterTiles' = IF RecoverTileSucceeds(c[1], c[2])
                            THEN [disasterTiles EXCEPT ![c].activeRecovery = TRUE]
                            ELSE disasterTiles
        /\ progressShown' = NothingShown
        /\ UNCHANGED <<simTime, activeDisaster, lastDisasterTick, disasterNotes>>

\* A common denominator of the progress of all tiles: the product of the
\* values totalRecoveryTicks can have
RECURSIVE ProductOf(_, _)
ProductOf(lo, hi) == IF lo > hi THEN 1 ELSE lo * ProductOf(lo + 1, hi)

ProgressDenominator == ProductOf(minRecoveryTicks, maxRecoveryTicks)

\* getDisasterInfo: tiles.reduce((sum, t) => sum + t.tile.recoveryProgress, 0),
\* in units of 1 / ProgressDenominator
RECURSIVE ProgressSum(_)
ProgressSum(entries) ==
    IF entries = <<>> THEN 0
    ELSE disasterTiles[<<Head(entries).x, Head(entries).y>>].recoveryProgress
             * (ProgressDenominator \div Head(entries).totalRecoveryTicks)
         + ProgressSum(Tail(entries))

\* getDisasterInfo: Math.round(avgProgress * 100), where avgProgress is the sum
\* divided by tiles.length; 0 / 0 is NaN, and Math.round rounds halves up
AverageRecoveryProgress(entries) ==
    IF Len(entries) = 0 THEN "NaN"
    ELSE (200 * ProgressSum(entries) + ProgressDenominator * Len(entries))
             \div (2 * ProgressDenominator * Len(entries))

\* DisasterService.getDisasterInfo: what it returns
DisasterInfo ==
    IF activeDisaster = NoDisaster
    THEN [active |-> FALSE]
    ELSE LET entries == activeDisaster.affectedTiles
         IN [active |-> TRUE,
             affectedTileCount |-> Len(entries),
             activeRecoveryCount |->
                 Cardinality({c \in EntryCoords(entries) : disasterTiles[c].activeRecovery}),
             averageRecoveryProgress |-> AverageRecoveryProgress(entries)]

\* The get_disaster_status command: DisasterService.getDisasterInfo
GetDisasterInfo ==
    /\ lastDisasterCall' = [op |-> "getDisasterInfo", success |-> TRUE, info |-> DisasterInfo]
    /\ progressShown' = NothingShown
    /\ UNCHANGED <<disasterTiles, simTime, activeDisaster, lastDisasterTick, disasterNotes>>

\* The coordinates the external actor builds at in the city of the service
RebuildCommands == {<<0, 0>>}

\* placeBuilding of the city API: refused when the tile has a building; a
\* damaged tile is built on like any other
DisasterPlaceBuilding ==
    \E c \in RebuildCommands :
        /\ ~disasterTiles[c].building
        /\ disasterTiles' = [disasterTiles EXCEPT ![c].building = TRUE]
        /\ lastDisasterCall' = [op |-> "placeBuilding", success |-> TRUE]
        /\ progressShown' = NothingShown
        /\ UNCHANGED <<simTime, activeDisaster, lastDisasterTick, disasterNotes>>

----------------------------------------------------------------------------
(* One tick of both lifecycles in one city.  The interval timer of the     *)
(* game calls DisasterService.simulate and the interval timer of index.ts  *)
(* calls RequestEngine.onCityChanged, both once a second; the two steps    *)
(* are applied to one drawn city in either order, with the same values of  *)
(* Math.random, and the two outcomes are set side by side.                 *)

\* A building with residents: powered, 2 residents of 4, both employed
HouseholdBuilding ==
    [type |-> "residential", powered |-> TRUE, maxCount |-> 4, count |-> 2, employed |-> 2]

\* The cities drawn: one of new houses only, and one without any problem
\* (roads on the columns of odd x, shops on the row y = 0, households
\* elsewhere, everything powered)
TickLayouts ==
    {[c \in DisasterCoords |-> NewBuilding("residential")],
     [c \in DisasterCoords |->
         IF c[1] % 2 = 1 THEN [NewBuilding("road") EXCEPT !.powered = TRUE]
         ELSE IF c[2] = 0 THEN [NewBuilding("commercial") EXCEPT !.powered = TRUE]
         ELSE HouseholdBuilding]}

\* The values Math.random() returns for the choice of the problem, in quarters
TickRandomQuarters == 0 .. 3

\* The city the engine reads
TickCity(tiles, population) ==
    [size |-> DisasterCitySize, tiles |-> tiles, population |-> population,
     happiness |-> HappinessUndefined]

\* onCityChanged in phase idle (tryGenerateRequest) on a city with these tiles:
\* the phase, the request and the snapshot it leaves, and what it notifies
RequestStepOn(tiles, population, quarter) ==
    LET snap == CaptureSnapshot(TickCity(tiles, population))
        problems == DetectProblems(snap)
    IN IF CooldownPending \/ Len(problems) = 0
       THEN [phase |-> "idle", type |-> "none", snapshotBefore |-> NoSnapshot, notes |-> <<>>]
       ELSE [phase |-> "request_active",
             type |-> problems[((quarter * Len(problems)) \div 4) + 1],
             snapshotBefore |-> snap,
             notes |-> <<"new">>]

\* DisasterService.simulate with no disaster active (tryTriggerDisaster and
\* triggerDisaster) on a city with these tiles: the tiles it leaves (bulldozed
\* in the affected area) and what it notifies
DisasterStepOn(tiles, passes, epicenter, sizeX, sizeY) ==
    LET count == Cardinality({c \in DisasterCoords : HasBuilding(tiles, c)})
        area == EntryCoords(AffectedArea(epicenter[1], epicenter[2], sizeX, sizeY,
                                         [c \in DisasterCoords |-> minRecoveryTicks]))
    IN IF \/ TooFewBuildings(count)
          \/ TooSoon(simTime, lastDisasterTick)
          \/ ~passes
       THEN [tiles |-> tiles, notes |-> <<>>]
       ELSE [tiles |-> [c \in DisasterCoords |-> IF c \in area THEN NoBuilding ELSE tiles[c]],
             notes |-> <<[kind |-> "disaster", affectedTileCount |-> Cardinality(area)]>>]

\* Both steps of one tick, in the one order and in the other
ApplyTickOrders ==
    /\ fnOut = NoOutput
    /\ \E passes \in BOOLEAN,
          epicenter \in {c \in DisasterCoords : HasBuilding(fnIn.tiles, c)},
          sizeX \in AffectedSizes, sizeY \in AffectedSizes,
          quarter \in TickRandomQuarters :
          LET shaken == DisasterStepOn(fnIn.tiles, passes, epicenter, sizeX, sizeY)
          IN fnOut' = [fn |-> "tick",
                       value |-> [random |-> <<passes, epicenter, sizeX, sizeY, quarter>>,
                                  triggered |-> shaken.notes # <<>>,
                                  requestFirst |->
                                      [engine |-> RequestStepOn(fnIn.tiles, fnIn.population,
                                                                quarter),
                                       world |-> shaken],
                                  disasterFirst |->
                                      [engine |-> RequestStepOn(shaken.tiles, fnIn.population,
                                                                quarter),
                                       world |-> shaken]]]
    /\ UNCHANGED fnIn

----------------------------------------------------------------------------
(* The arithmetic of advanceRecovery as JavaScript does it: on IEEE 754     *)
(* binary64 numbers, every operation rounded to the nearest number of 53    *)
(* significant bits, ties to even.  Every number that occurs (1 / total for *)
(* total below 1024, its multiple by 5, the progress up to 1 and the sum     *)
(* before Math.min) is a multiple of 2^-64 below 2^16, and is kept as that   *)
(* multiple in four limbs of 20 bits, the least significant first.          *)

LimbBase == 2 ^ 20

\* The number 0 and the number 1
DoubleZero == <<0, 0, 0, 0>>
DoubleOne == <<0, 0, 0, 2 ^ 4>>

\* The limbs of a sum of limbs after the carries
Carry(x) ==
    LET c1 == x[1] \div LimbBase
        c2 == (x[2] + c1) \div LimbBase
        c3 == (x[3] + c2) \div LimbBase
    IN <<x[1] % LimbBase, (x[2] + c1) % LimbBase, (x[3] + c2) % LimbBase, x[4] + c3>>

\* The number of bits of a natural number
RECURSIVE BitLength(_)
BitLength(n) == IF n = 0 THEN 0 ELSE 1 + BitLength(n \div 2)

\* The number of bits of a multiple of 2^-64
SignificantBits(a) ==
    IF a[4] > 0 THEN 60 + BitLength(a[4])
    ELSE IF a[3] > 0 THEN 40 + BitLength(a[3])
    ELSE IF a[2] > 0 THEN 20 + BitLength(a[2])
    ELSE BitLength(a[1])

\* The bits beyond the 53rd are cut off
RoundToDouble_TowardZero(a, sticky) ==
    LET s == SignificantBits(a) - 53
    IN IF s <= 0 THEN a ELSE <<a[1] - (a[1] % (2 ^ s)), a[2], a[3], a[4]>>

\* Rounding of an exact result to binary64: a is the result cut to a multiple
\* of 2^-64 and sticky tells that something was cut.  The bits beyond the 53rd
\* are the lowest s bits, all in the first limb (s is below 20); they are
\* dropped, and the 53rd bit goes up when they are more than half a unit, or
\* half a unit and the kept part is odd.
RoundToDouble(a, sticky) ==
    LET s == SignificantBits(a) - 53
        unit == 2 ^ s
        dropped == a[1] % unit
        half == unit \div 2
        keptOdd == (a[1] \div unit) % 2 = 1
        up == dropped > half \/ (dropped = half /\ (sticky \/ keptOdd))
    IN IF s <= 0 THEN a
       ELSE Carry(<<a[1] - dropped + (IF up THEN unit ELSE 0), a[2], a[3], a[4]>>)

\* a < b
DoubleLess(a, b) ==
    \E i \in 1 .. 4 : a[i] < b[i] /\ \A j \in (i + 1) .. 4 : a[j] = b[j]

\* a + b of JavaScript
DoubleAdd(a, b) == RoundToDouble(Carry([i \in 1 .. 4 |-> a[i] + b[i]]), FALSE)

\* a * k of JavaScript for a small natural number k
DoubleTimes(a, k) == RoundToDouble(Carry([i \in 1 .. 4 |-> a[i] * k]), FALSE)

\* 1 / n of JavaScript for a natural number n from 1 to 1023: the long
\* division of 2^64 by n, limb by limb from the most significant, then rounded
DoubleInverse(n) ==
    LET c4 == DoubleOne[4]
        c3 == (c4 % n) * LimbBase
        c2 == (c3 % n) * LimbBase
        c1 == (c2 % n) * LimbBase
    IN RoundToDouble(<<c1 \div n, c2 \div n, c3 \div n, c4 \div n>>, c1 % n # 0)

\* Math.min(1, a)
DoubleMinOne(a) == IF DoubleLess(DoubleOne, a) THEN DoubleOne ELSE a

\* The tile recovers at the plain pace whether or not it is actively recovered
RecoveryIncrement_Plain(totalRecoveryTicks, activeRecovery) ==
    DoubleInverse(totalRecoveryTicks)

\* advanceRecovery: let increment = 1 / entry.totalRecoveryTicks, times
\* cfg.activeRecoveryMultiplier when the tile is actively recovered
RecoveryIncrement(totalRecoveryTicks, activeRecovery) ==
    IF activeRecovery
    THEN DoubleTimes(DoubleInverse(totalRecoveryTicks), activeRecoveryMultiplier)
    ELSE DoubleInverse(totalRecoveryTicks)

\* advanceRecovery: Math.min(1, entry.tile.recoveryProgress + increment)
RecoveryProgressAfter(progress, totalRecoveryTicks, activeRecovery) ==
    DoubleMinOne(DoubleAdd(progress, RecoveryIncrement(totalRecoveryTicks, activeRecovery)))

\* config.disaster.minRecoveryTicks and maxRecoveryTicks as config.js ships them
ShippedMinRecoveryTicks == 300
ShippedMaxRecoveryTicks == 600

\* One tile of a disaster, from the trigger on: fnIn is its entry's
\* totalRecoveryTicks and its activeRecovery flag, which a recoverTile command
\* has set before the first recovery tick or which is never set; fnOut.value
\* is [progress, ticks, recovered]: the tile's recoveryProgress as the loop of
\* advanceRecovery left it before its test `>= 1`, the calls of
\* advanceRecovery since the trigger, and whether the last one spliced the
\* entry out.
ApplyAdvanceRecovery ==
    /\ ~fnOut.value.recovered
    /\ LET written == RecoveryProgressAfter(fnOut.value.progress, fnIn.totalRecoveryTicks,
                                            fnIn.activeRecovery)
       IN fnOut' = [fn |-> "advanceRecovery",
                    value |-> [progress |-> written, ticks |-> fnOut.value.ticks + 1,
                               recovered |-> ~DoubleLess(written, DoubleOne)]]
    /\ UNCHANGED fnIn

----------------------------------------------------------------------------
(* The state machines                                                      *)

\* The engine after construction
EngineInit ==
    /\ \E h \in HappinessSamples :
          city = [size |-> CitySize, tiles |-> InitialTiles, population |-> 0, happiness |-> h]
    /\ phase = "idle"
    /\ currentRequest = 0
    /\ snapshotBefore = NoSnapshot
    /\ settleTicksRemaining = 0
    /\ expiryTimeoutId = 0
    /\ requests = <<>>
    /\ idleElapsed = IdleElapsedCap
    /\ nextCooldownMs = 20000
    /\ evaluateFn \in {"null", "set"}
    /\ timers = {}
    /\ evalAwait = FALSE
    /\ notes = <<>>
    /\ lastCall = "none"
    /\ lastEval = NoEval
    /\ lastNotify = "none"
    /\ lastStatus = NoStatus
    /\ phaseLog = <<>>
    /\ ticksSinceResolved = 0
    /\ requestAge = 0
    /\ toolCall = NoToolCall

\* The engine is constructed and not driven
EngineAtRest == EngineInit /\ city.happiness = HappinessUndefined /\ evaluateFn = "null"

\* No function is applied to drawn arguments
FnAtRest == fnIn = NoInput /\ fnOut = NoOutput

\* The speech coordinator when the module is loaded
SpeechInit ==
    /\ speech = SpeechQuiet
    /\ playbackQueue = 0
    /\ isPlaying = FALSE
    /\ playingSources = 0
    /\ citizenEmitting = 0
    /\ failsafeFired = FALSE

\* The DisasterService as constructed, in a city with a building on every tile
DisasterInit ==
    /\ disasterTiles = [c \in DisasterCoords |-> NewTile(TRUE)]
    /\ simTime = 0
    /\ activeDisaster = NoDisaster
    /\ lastDisasterTick = <<>>
    /\ disasterNotes = <<>>
    /\ lastDisasterCall = [op |-> "none", success |-> TRUE]
    /\ progressShown = NothingShown

\* A step of the engine or of its world
EngineStep(A) == A /\ UNCHANGED <<toolVars, fnVars, speechVars, disasterVars>>

\* A step of the tool layer: a function call of the external actor is sent or
\* handled
ToolStep(A) == A /\ UNCHANGED <<fnVars, speechVars, disasterVars>>

\* An application of a pure function
FnStep(A) ==
    A /\ UNCHANGED <<city, engineVars, runtimeVars, obsVars, toolVars, speechVars, disasterVars>>

\* A task or a microtask of the voices
SpeechStep(A) ==
    A /\ UNCHANGED <<city, engineVars, runtimeVars, obsVars, toolVars, fnVars, disasterVars>>

\* A step of the DisasterService or of its city
DisasterStep(A) ==
    A /\ UNCHANGED <<city, engineVars, runtimeVars, obsVars, toolVars, fnVars, speechVars>>

Init == EngineInit /\ FnAtRest /\ SpeechInit /\ DisasterInit

\* The lifecycle in a city without buildings: the population alone decides
\* whether there is a problem (housing)
Next ==
    \/ EngineStep((OnCityChanged /\ Len(requests') <= MaxRequests))
    \/ EngineStep(MarkResolved)
    \/ EngineStep(ExpiryTimerFires)
    \/ EngineStep(EvaluateResume)
    \/ EngineStep(CallCheckRequestStatus)
    \/ EngineStep(WorldStep(SimPopulation))
    \/ EngineStep(AdvanceTime)

Spec == Init /\ [][Next]_vars

\* The lifecycle under the scheduling of the runtime: a promise that the
\* evaluation callback returned settles (the callback installed by index.ts is
\* an async function that only logs), after which the continuation of evaluate
\* is run from the microtask queue. Ticks, commands, timers and world changes
\* may go on for ever or stop.
SpecLive ==
    /\ Init /\ [][Next]_vars
    /\ WF_vars(EngineStep(EvaluateResume))

\* The lifecycle driven through the tool layer: the resolved signal is a
\* function call that the external actor sends and the handler runs later
NextTool ==
    \/ EngineStep((OnCityChanged /\ Len(requests') <= MaxRequests))
    \/ ToolStep(IssueMarkResolved)
    \/ ToolStep(ExecuteMarkResolved)
    \/ EngineStep(ExpiryTimerFires)
    \/ EngineStep(EvaluateResume)
    \/ EngineStep(WorldStep(SimPopulation))
    \/ EngineStep(AdvanceTime)

SpecTool == Init /\ [][NextTool]_vars

\* The lifecycle in a city in which the external actor builds
NextBuild ==
    \/ EngineStep((OnCityChanged /\ Len(requests') <= MaxBuildRequests))
    \/ EngineStep(MarkResolved)
    \/ EngineStep(ExpiryTimerFires)
    \/ EngineStep(EvaluateResume)
    \/ EngineStep(CallCheckRequestStatus)
    \/ EngineStep(WorldStep(SimPopulation))
    \/ EngineStep(WorldStep(PlaceBuilding))
    \/ EngineStep(AdvanceTime)

SpecBuild == Init /\ [][NextBuild]_vars

\* The pure functions applied to every drawn request type and pair of snapshots
InitFn ==
    /\ EngineAtRest /\ SpeechInit /\ DisasterInit
    /\ \E type \in RequestTypes, before \in BeforeSamples :
          \E cur \in CurSamples(before) :
              fnIn = [type |-> type, before |-> before, cur |-> cur]
    /\ fnOut = NoOutput

NextFn ==
    \/ FnStep(ApplyComputeHappinessDelta)
    \/ FnStep(ApplyCheckRequestStatus)
    \/ FnStep(ApplyDetectProblems)

SpecFn == InitFn /\ [][NextFn]_vars

\* computeNextCooldown on drawn arguments
InitCooldown ==
    /\ EngineAtRest /\ SpeechInit /\ DisasterInit
    /\ \E happiness \in CooldownHappinessSamples, problems \in CooldownProblemCounts,
          population \in CooldownPopulationSamples, jitter \in CooldownJitterSamples :
          fnIn = [happiness |-> happiness, problems |-> problems,
                  population |-> population, jitter |-> jitter]
    /\ fnOut = NoOutput

NextCooldown == FnStep(ApplyComputeNextCooldown)

SpecCooldown == InitCooldown /\ [][NextCooldown]_vars

\* The two voices and the runtime's timers
InitSpeech == EngineAtRest /\ FnAtRest /\ SpeechInit /\ DisasterInit

NextSpeech ==
    \/ SpeechStep(MayorAudioChunk)
    \/ SpeechStep(MayorTurnComplete)
    \/ SpeechStep(MayorContinue)
    \/ SpeechStep(MayorSourceEnded)
    \/ SpeechStep(CitizenSpeak)
    \/ SpeechStep(CitizenContinue)
    \/ SpeechStep(CitizenFinish)
    \/ SpeechStep(FailsafeFires)
    \/ SpeechStep(ClockAdvances)

SpecSpeech == InitSpeech /\ [][NextSpeech]_vars

\* The coordinator under the scheduling of the runtime: time goes on, a timer
\* that is due is run, and the microtask queue is drained after every task.
\* The producers may call for ever or stop.
SpecSpeechLive ==
    /\ InitSpeech /\ [][NextSpeech]_vars
    /\ SF_vars(SpeechStep(ClockAdvances))
    /\ SF_vars(SpeechStep(FailsafeFires))
    /\ WF_vars(SpeechStep(MayorContinue))
    /\ WF_vars(SpeechStep(CitizenContinue))

\* The recovery of one tile with the shipped configuration
InitRecovery ==
    /\ EngineAtRest /\ SpeechInit /\ DisasterInit
    /\ \E total \in ShippedMinRecoveryTicks .. ShippedMaxRecoveryTicks, active \in BOOLEAN :
          fnIn = [totalRecoveryTicks |-> total, activeRecovery |-> active]
    /\ fnOut = [fn |-> "triggerDisaster",
                value |-> [progress |-> DoubleZero, ticks |-> 0, recovered |-> FALSE]]

NextRecovery == FnStep(ApplyAdvanceRecovery)

SpecRecovery == InitRecovery /\ [][NextRecovery]_vars

\* One tick of both lifecycles, the engine idle with its cooldown over and no
\* disaster yet, in each drawn city
InitTick ==
    /\ EngineAtRest /\ SpeechInit /\ DisasterInit
    /\ \E tiles \in TickLayouts, population \in PopulationSamples :
          fnIn = [tiles |-> tiles, population |-> population]
    /\ fnOut = NoOutput

NextTick == FnStep(ApplyTickOrders)

SpecTick == InitTick /\ [][NextTick]_vars

\* The DisasterService, the recover_tile command and an external actor who
\* builds
InitDisaster == EngineAtRest /\ FnAtRest /\ SpeechInit /\ DisasterInit

NextDisaster ==
    \/ DisasterStep(SimulateTick)
    \/ DisasterStep(RecoverTile)
    \/ DisasterStep(GetDisasterInfo)
    \/ DisasterStep(DisasterPlaceBuilding)

SpecDisaster == InitDisaster /\ [][NextDisaster]_vars

\* The DisasterService when no recover_tile command is given, under the
\* scheduling of the game: the simulation's interval keeps calling simulate
NextDisasterAlone ==
    \/ DisasterStep(SimulateTick)
    \/ DisasterStep(DisasterPlaceBuilding)

SpecDisasterAlone ==
    InitDisaster /\ [][NextDisasterAlone]_vars /\ WF_vars(DisasterStep(SimulateTick))

TypeOK ==
    /\ simTime \in 0 .. MaxSimTime
    /\ \A c \in DisasterCoords : disasterTiles[c].recoveryProgress \in 0 .. maxRecoveryTicks
    /\ phase \in {"idle", "request_active", "settling", "evaluating"}
    /\ currentRequest \in 0 .. Len(requests)
    /\ settleTicksRemaining \in 0 .. SETTLE_TICKS
    /\ evalAwait \in BOOLEAN
    /\ playbackQueue \in 0 .. MaxChunks
    /\ playingSources \in 0 .. MaxSources
    /\ citizenEmitting \in 0 .. MaxSpeakCalls

----------------------------------------------------------------------------
(* The claims                                                              *)

\* C1: after any interleaving of ticks, markResolved calls, expiry-timer firings
\* and evaluation-callback completions, at most one request of the engine has
\* status 'active': getActiveRequests returns 0 or 1 element.
C1_AtMostOneActive == Len(GetActiveRequests(requests)) <= 1

\* A second request is active at the moment its expiry timer is due, so that a
\* resolution signal and the timer race for it; the first one was resolved
C1_Witness ==
    /\ Len(requests) = 2
    /\ requests[1].status = "fulfilled"
    /\ requests[2].status = "active"
    /\ \E t \in timers : t.remaining = 0

\* C2: in every reachable state in which no failsafe timeout has fired, the
\* flags mayorSpeaking and citizenSpeaking are not both true.
C2_NeverBothSpeaking ==
    ~failsafeFired => ~(speech.mayorSpeaking /\ speech.citizenSpeaking)

\* C3: the phase starts at idle and every change of the phase is one of idle to
\* request_active, request_active to settling, request_active to idle, settling
\* to evaluating, evaluating to idle.  phaseLog' lists the values the step
\* assigned to the phase, the last of which is the phase after the step.
C3_PhaseChanges ==
    /\ phase = "idle"
    /\ [][LET seq == <<phase>> \o phaseLog'
          IN /\ phase' = seq[Len(seq)]
             /\ \A i \in 1 .. Len(phaseLog') :
                   \/ seq[i] = seq[i + 1]
                   \/ <<seq[i], seq[i + 1]>> \in
                         {<<"idle", "request_active">>, <<"request_active", "settling">>,
                          <<"request_active", "idle">>, <<"settling", "evaluating">>,
                          <<"evaluating", "idle">>}]_vars

\* A tick has ended the settling phase of an engine without evaluation callback:
\* the phase went to evaluating and on to idle within the tick
C3_Witness == phase = "idle" /\ phaseLog = <<"evaluating", "idle">> /\ Len(requests) = 2

\* C4: a request that is not resolved does not stay active beyond 90 s after its
\* creation, and a step that marks a request 'expired' is taken exactly 90 s
\* after its creation, emits a 'failed' notification for it, clears the current
\* request and snapshotBefore and leaves the engine in phase idle.
C4_ExpiresAt90s ==
    /\ [](phase = "request_active" => requestAge <= 90000)
    /\ [][\A i \in 1 .. Len(requests) :
            (requests[i].status = "active" /\ requests'[i].status = "expired") =>
                /\ requestAge = 90000
                /\ notes' = Append(notes, [kind |-> "failed", req |-> i, spoken |-> NoSpokenText])
                /\ currentRequest' = 0
                /\ snapshotBefore' = NoSnapshot
                /\ phase' = "idle"]_vars

\* The expiry timer has just expired a request
C4_Witness ==
    /\ requests # <<>> /\ requests[Len(requests)].status = "expired"
    /\ notes[Len(notes)] = [kind |-> "failed", req |-> Len(requests), spoken |-> NoSpokenText]
    /\ phase = "idle" /\ idleElapsed = 0
    /\ currentRequest = 0 /\ snapshotBefore = NoSnapshot

\* C5: evaluation runs in the third tick after an accepted markResolved: not in
\* the first or the second, and the engine is not left in settling by the third.
C5_ThreeTicks ==
    /\ lastEval # NoEval => lastEval.ticks = 3
    /\ phase = "settling" => ticksSinceResolved \in 0 .. 2

\* An evaluation has just run, in the third tick
C5_Witness == lastEval # NoEval /\ lastEval.ticks = 3 /\ ticksSinceResolved = 0

\* C6: a markResolved call made in a phase other than request_active, or without
\* current request, changes neither the phase, the current request, any
\* request's status, snapshotBefore, the settle counter, the expiry timer nor
\* the city's happiness, and emits no notification.
C6_MarkResolvedIgnored ==
    [][(lastCall' = "markResolved" /\ (phase # "request_active" \/ currentRequest = 0)) =>
            /\ UNCHANGED <<phase, currentRequest, requests, snapshotBefore>>
            /\ UNCHANGED <<settleTicksRemaining, expiryTimeoutId, timers>>
            /\ city'.happiness = city.happiness
            /\ notes' = notes]_vars

\* markResolved has been called while the evaluation callback was running, and
\* again while the engine was settling
C6_Witness ==
    /\ lastCall = "markResolved"
    /\ phase = "evaluating" /\ currentRequest # 0 /\ evalAwait

\* C7: every evaluation applies a delta of +10 or of -2 and writes a happiness
\* within 0 .. 100 to the city.
C7_DeltaAndClamp ==
    lastEval # NoEval =>
        /\ lastEval.delta \in {10, -2}
        /\ lastEval.happinessAfter \in 0 .. 100
        /\ city.happiness = lastEval.happinessAfter

\* An evaluation has added 10 to a happiness of 95 and written 100
C7_Witness ==
    /\ lastEval # NoEval
    /\ lastEval.delta = 10 /\ lastEval.happinessBefore = 95 /\ lastEval.happinessAfter = 100

\* C8: computeHappinessDelta returns +10 when the signal of the request's
\* category improved from before to after, and -2 otherwise; the signals are
\* housing: capacity increased; jobs: commercial + industrial increased; power:
\* plants or lines increased or unpowered decreased; road: roads increased or
\* no-access decreased; commerce: commercial increased.
C8_DeltaFollowsSignal ==
    fnOut.fn = "computeHappinessDelta" =>
        LET b == fnIn.before
            a == fnIn.cur
            improved ==
                \/ fnIn.type = "housing" /\ a.residentialCapacity > b.residentialCapacity
                \/ fnIn.type = "jobs" /\ a.commercialCount + a.industrialCount >
                                         b.commercialCount + b.industrialCount
                \/ fnIn.type = "power" /\ (\/ a.powerPlantCount > b.powerPlantCount
                                           \/ a.powerLineCount > b.powerLineCount
                                           \/ a.unpoweredCount < b.unpoweredCount)
                \/ fnIn.type = "road" /\ (\/ a.roadCount > b.roadCount
                                          \/ a.noRoadAccess < b.noRoadAccess)
                \/ fnIn.type = "commerce" /\ a.commercialCount > b.commercialCount
        IN fnOut.value = IF improved THEN 10 ELSE -2

\* A power request gets +10 for fewer unpowered buildings alone
C8_Witness ==
    /\ fnOut.fn = "computeHappinessDelta" /\ fnOut.value = 10
    /\ fnIn.type = "power"
    /\ fnIn.cur.unpoweredCount < fnIn.before.unpoweredCount
    /\ fnIn.cur.powerPlantCount = fnIn.before.powerPlantCount
    /\ fnIn.cur.powerLineCount = fnIn.before.powerLineCount

\* C9: in phase request_active checkRequestStatus reports resolved = true exactly
\* when the ideal condition of the request's category holds on the snapshot
\* taken at the call or the category's count has grown since snapshotBefore
\* (housing: capacity; jobs: commercial + industrial; power: plants or lines;
\* road: roads; commerce: commercial); so any increase of the capacity resolves
\* a housing request, also while the capacity is below the population.
C9_ResolvedIffIdealOrProgress ==
    fnOut.fn = "checkRequestStatus" =>
        LET b == fnIn.before
            c == fnIn.cur
            ideal ==
                \/ fnIn.type = "housing" /\ (c.population = 0 \/ c.residentialCapacity >= c.population)
                \/ fnIn.type = "jobs" /\ c.commercialCount + c.industrialCount >= c.residentialCount
                \/ fnIn.type = "power" /\ c.unpoweredCount = 0
                \/ fnIn.type = "road" /\ c.noRoadAccess = 0
                \/ fnIn.type = "commerce" /\ 10 * c.commercialCount >= 3 * c.residentialCount
            improvement ==
                \/ fnIn.type = "housing" /\ c.residentialCapacity > b.residentialCapacity
                \/ fnIn.type = "jobs" /\ c.commercialCount + c.industrialCount >
                                         b.commercialCount + b.industrialCount
                \/ fnIn.type = "power" /\ (\/ c.powerPlantCount > b.powerPlantCount
                                           \/ c.powerLineCount > b.powerLineCount)
                \/ fnIn.type = "road" /\ c.roadCount > b.roadCount
                \/ fnIn.type = "commerce" /\ c.commercialCount > b.commercialCount
        IN /\ fnOut.value.request # 0
           /\ fnOut.value.resolved = (ideal \/ improvement)
           /\ (fnIn.type = "housing" /\ c.residentialCapacity > b.residentialCapacity)
                  => fnOut.value.resolved

\* Population 50, capacity 40 at the request's creation, capacity 48 at the call:
\* the housing request is reported resolved
C9_Witness ==
    /\ fnOut.fn = "checkRequestStatus" /\ fnOut.value.resolved
    /\ fnIn.type = "housing"
    /\ fnIn.before.population = 50 /\ fnIn.before.residentialCapacity = 40
    /\ fnIn.cur.population = 50 /\ fnIn.cur.residentialCapacity = 48

\* C10: a call of checkRequestStatus, in any phase, changes neither the phase,
\* the current request, any request's status, snapshotBefore, the timers nor
\* the city; outside request_active, or without current request, it returns
\* resolved = false and a null request.
C10_CheckRequestStatusReadOnly ==
    [][lastCall' = "checkRequestStatus" =>
            /\ UNCHANGED <<city, engineVars, runtimeVars>>
            /\ (phase # "request_active" \/ currentRequest = 0) =>
                   lastStatus' = [resolved |-> FALSE, request |-> 0]]_vars

\* checkRequestStatus has been called while a resolved request was settling
C10_Witness ==
    /\ lastCall = "checkRequestStatus"
    /\ phase = "settling" /\ currentRequest # 0
    /\ lastStatus = [resolved |-> FALSE, request |-> 0]

\* C11: detectProblems returns exactly the categories whose threshold fires on
\* the snapshot, each once: housing iff population > 0 and population > 0.8 x
\* capacity; jobs iff residents - employed > 0 and commercial + industrial <
\* residential count; power iff unpowered > 0; road iff no-access > 0; commerce
\* iff commercial < 0.3 x residential count; and the call leaves the city and
\* the engine as they are.
C11_DetectProblemsExact ==
    /\ [](fnOut.fn = "detectProblems" =>
            LET snap == fnIn.cur
                fired ==
                    {t \in RequestTypes :
                        \/ t = "housing" /\ snap.population > 0
                                         /\ 10 * snap.population > 8 * snap.residentialCapacity
                        \/ t = "jobs" /\ snap.totalResidents - snap.employed > 0
                                      /\ snap.commercialCount + snap.industrialCount
                                             < snap.residentialCount
                        \/ t = "power" /\ snap.unpoweredCount > 0
                        \/ t = "road" /\ snap.noRoadAccess > 0
                        \/ t = "commerce" /\ 10 * snap.commercialCount < 3 * snap.residentialCount}
            IN /\ {fnOut.value[i] : i \in 1 .. Len(fnOut.value)} = fired
               /\ Len(fnOut.value) = Cardinality(fired))
    /\ [][fnOut'.fn = "detectProblems" => UNCHANGED <<city, engineVars, fnIn>>]_vars

\* detectProblems has returned housing, road and commerce, and neither jobs nor
\* power: population 1 of capacity 1, no shop for one house
C11_Witness ==
    /\ fnOut.fn = "detectProblems"
    /\ fnOut.value = <<"housing", "road", "commerce">>
    /\ fnIn.cur.population = 1 /\ fnIn.cur.residentialCapacity = 1
    /\ fnIn.cur.commercialCount = 0 /\ fnIn.cur.residentialCount = 1

\* C12: a request's status changes only from active to fulfilled or from active
\* to expired; a fulfilled or expired request keeps its status in every later
\* step.
C12_StatusTerminal ==
    [][\A i \in 1 .. Len(requests) :
          /\ Len(requests') >= Len(requests)
          /\ requests'[i].status # requests[i].status =>
                 /\ requests[i].status = "active"
                 /\ requests'[i].status \in {"fulfilled", "expired"}]_vars

\* A fulfilled request and an expired one, and ticks, signals and time after both
C12_Witness ==
    /\ Len(requests) = 2
    /\ requests[1].status = "fulfilled" /\ requests[2].status = "expired"
    /\ lastCall = "markResolved" /\ idleElapsed > 0

\* C13: once markResolved has been accepted for a request, no expiry timer is
\* armed for it (a pending expiry timer belongs to the current request of an
\* engine in phase request_active), no 'failed' notification exists for it, and
\* it never becomes expired.
C13_ResolvedNeverExpires ==
    /\ [](/\ \A t \in timers : phase = "request_active" /\ t.id = currentRequest
          /\ \A i \in 1 .. Len(requests) :
                requests[i].status = "fulfilled" =>
                    /\ \A t \in timers : t.id # i
                    /\ \A n \in 1 .. Len(notes) : notes[n] # [kind |-> "failed", req |-> i, spoken |-> NoSpokenText])
    /\ [][\A i \in 1 .. Len(requests) :
            requests[i].status = "fulfilled" => requests'[i].status = "fulfilled"]_vars

\* The evaluation callback of a resolved request is running, more than 90 s
\* may have passed, and no timer is pending
C13_Witness ==
    /\ phase = "evaluating" /\ evalAwait
    /\ currentRequest = 2 /\ requests[2].status = "fulfilled"
    /\ requests[1].status = "fulfilled"
    /\ timers = {}

\* C14: a failure of the evaluation callback does not affect the lifecycle.
\* When the callback is called the delta is applied and the 'fulfilled'
\* notification emitted; when the call throws, the same tick clears the current
\* request and snapshotBefore and enters idle; when the promise rejects, the
\* step that resumes evaluate does so, and changes neither the city, the
\* notifications nor any request.
C14_CallbackFailureHarmless ==
    /\ [](/\ evalAwait =>
                /\ phase = "evaluating"
                /\ notes # <<>>
                /\ notes[Len(notes)] = [kind |-> "fulfilled", req |-> currentRequest, spoken |-> NoSpokenText]
          /\ (lastEval # NoEval /\ lastEval.callback \in {"pending", "threw"}) =>
                /\ city.happiness = lastEval.happinessAfter
                /\ notes # <<>> /\ notes[Len(notes)].kind = "fulfilled"
          /\ (lastEval # NoEval /\ lastEval.callback = "threw") =>
                /\ phase = "idle" /\ idleElapsed = 0
                /\ currentRequest = 0 /\ snapshotBefore = NoSnapshot)
    /\ [][lastCall' = "rejected" =>
            /\ phase = "evaluating" /\ phase' = "idle" /\ idleElapsed' = 0
            /\ currentRequest' = 0 /\ snapshotBefore' = NoSnapshot
            /\ UNCHANGED <<city, notes, requests, timers>>]_vars

\* The promise of the evaluation callback has rejected and the engine is idle
C14_Witness ==
    /\ lastCall = "rejected"
    /\ phase = "idle" /\ currentRequest = 0 /\ snapshotBefore = NoSnapshot
    /\ notes # <<>> /\ notes[Len(notes)].kind = "fulfilled"

\* C15: under continuing ticks, whenever the engine is evaluating it is
\* eventually idle again with no current request and no snapshot, whichever
\* way and however late the callback's promise settles.
C15_EvaluatingLeadsToIdle ==
    (phase = "evaluating") ~>
        (phase = "idle" /\ currentRequest = 0 /\ snapshotBefore = NoSnapshot)

\* Evaluate waited for the callback, the promise resolved and the engine is
\* idle with a request whose lifecycle is over
C15_Witness ==
    /\ lastCall = "resolved"
    /\ phase = "idle" /\ currentRequest = 0
    /\ \E i \in 1..Len(requests) : requests[i].status = "fulfilled"

\* C16: the cooldown that computeNextCooldown returns is within [8 s, 40 s]
\* for every happiness, number of problems, population and jitter.
C16_CooldownInRange ==
    fnOut.fn = "computeNextCooldown" => fnOut.value \in 8000 .. 40000

\* The unhappiest, largest city with every problem at the least jitter: the
\* sum is 25000 - 8000 - 10000 - 5000 - 4000 and the lower clamp binds
C16_Witness ==
    /\ fnOut.fn = "computeNextCooldown" /\ fnOut.value = 8000
    /\ fnIn.happiness = 0 /\ fnIn.problems = 5
    /\ fnIn.population = 1000 /\ fnIn.jitter = -4000

\* C17: a request is added only by a tick observed in phase idle when the time
\* since lastIdleTime is at least nextCooldownMs and detectProblems() of the
\* city is not empty; its category is one of those detected, snapshotBefore
\* is the snapshot of that same city, and the tick leaves the city as it was.
C17_GeneratedOnlyWhenDue ==
    [][Len(requests') > Len(requests) =>
          LET problems == DetectProblems(CaptureSnapshot(city))
              request == requests'[Len(requests')]
          IN /\ phase = "idle" /\ phase' = "request_active"
             /\ idleElapsed >= nextCooldownMs
             /\ problems # <<>>
             /\ Len(requests') = Len(requests) + 1
             /\ \E i \in 1 .. Len(problems) : request.type = problems[i]
             /\ request.status = "active" /\ currentRequest' = request.id
             /\ snapshotBefore' = CaptureSnapshot(city)
             /\ city' = city]_vars

\* A second request has been generated, one time step after the engine
\* returned to idle
C17_Witness ==
    /\ phase = "request_active" /\ currentRequest = 2 /\ requestAge = 0
    /\ Len(requests) = 2 /\ requests[1].status # "active"
    /\ snapshotBefore = CaptureSnapshot(city)

\* C18: a step of simulate that triggers a disaster (it calls notifyFn) starts
\* in a state in which at least minBuildingsForDisaster tiles have a building,
\* whether the Bernoulli trial passes or not and whatever the time since the
\* last disaster; below that count a tick changes neither the tiles nor the
\* service.
C18_NoTriggerBelowThreshold ==
    [][LET count == Cardinality({c \in DisasterCoords : disasterTiles[c].building})
       IN /\ (activeDisaster = NoDisaster /\ activeDisaster' # NoDisaster)
                 => count >= minBuildingsForDisaster
          /\ Len(disasterNotes') > Len(disasterNotes)
                 => (disasterNotes'[Len(disasterNotes')].kind = "disaster"
                        => count >= minBuildingsForDisaster)
          /\ (lastDisasterCall'.op = "simulate" /\ activeDisaster = NoDisaster
                 /\ count < minBuildingsForDisaster)
                 => UNCHANGED <<disasterTiles, activeDisaster, lastDisasterTick,
                                disasterNotes>>]_vars

\* A disaster has left one building less than a disaster needs; it is over,
\* and the last tick found no disaster, the spacing elapsed, and did not
\* trigger
C18_Witness ==
    /\ lastDisasterCall.op = "simulate" /\ activeDisaster = NoDisaster
    /\ Cardinality({c \in DisasterCoords : disasterTiles[c].building}) =
           minBuildingsForDisaster - 1
    /\ Len(disasterNotes) = 2 /\ disasterNotes[2].kind = "recovered"
    /\ disasterNotes[2].tick < simTime - 1
    /\ simTime - 1 - lastDisasterTick[1] >= minTicksBetweenDisasters

\* C19: a disaster is triggered only in a state without active disaster and
\* at least minTicksBetweenDisasters ticks after the tick of every earlier
\* trigger; while a disaster is active its epicenter stays and its list of
\* affected tiles only loses entries; the damaged tiles are at any time the
\* tiles of the one active disaster.
C19_OneDisasterAtATime ==
    /\ [][(Len(disasterNotes') > Len(disasterNotes)
             /\ disasterNotes'[Len(disasterNotes')].kind = "disaster") =>
               /\ activeDisaster = NoDisaster /\ activeDisaster' # NoDisaster
               /\ disasterNotes'[Len(disasterNotes')].tick = simTime
               /\ \A i \in 1 .. Len(disasterNotes) :
                     disasterNotes[i].kind = "disaster" =>
                         simTime - disasterNotes[i].tick >= minTicksBetweenDisasters]_vars
    /\ [][(activeDisaster # NoDisaster /\ activeDisaster' # NoDisaster) =>
               /\ activeDisaster'.epicenterX = activeDisaster.epicenterX
               /\ activeDisaster'.epicenterY = activeDisaster.epicenterY
               /\ Len(activeDisaster'.affectedTiles) <= Len(activeDisaster.affectedTiles)
               /\ \A i \in 1 .. Len(activeDisaster'.affectedTiles) :
                     \E j \in 1 .. Len(activeDisaster.affectedTiles) :
                         activeDisaster'.affectedTiles[i] = activeDisaster.affectedTiles[j]
               /\ Len(disasterNotes') = Len(disasterNotes)]_vars
    /\ []({c \in DisasterCoords : disasterTiles[c].damaged} =
             IF activeDisaster = NoDisaster THEN {}
             ELSE EntryCoords(activeDisaster.affectedTiles))

\* A second disaster has been triggered, on the first tick the spacing allows
C19_Witness ==
    /\ Len(disasterNotes) = 3
    /\ disasterNotes[1].kind = "disaster" /\ disasterNotes[3].kind = "disaster"
    /\ disasterNotes[3].tick - disasterNotes[1].tick = minTicksBetweenDisasters
    /\ activeDisaster # NoDisaster

\* C20: every value advanceRecovery writes to the recoveryProgress of an
\* affected tile is within [0, 1]; between operations the progress of a listed
\* tile is within [0, 1) and that of every other tile is 0; and from one state
\* to the next the progress of a tile that stays listed does not decrease,
\* whether the step is a tick or a recoverTile command.
C20_ProgressWithinUnit ==
    /\ [](/\ \A c \in DisasterCoords :
                progressShown[c] # <<>> =>
                    (0 <= progressShown[c][1] /\ progressShown[c][1] <= progressShown[c][2])
          /\ \A c \in DisasterCoords :
                IF activeDisaster # NoDisaster /\ c \in EntryCoords(activeDisaster.affectedTiles)
                THEN /\ 0 <= disasterTiles[c].recoveryProgress
                     /\ disasterTiles[c].recoveryProgress <
                            EntryAt(activeDisaster.affectedTiles, c).totalRecoveryTicks
                ELSE disasterTiles[c].recoveryProgress = 0)
    /\ [][(activeDisaster # NoDisaster /\ activeDisaster' # NoDisaster) =>
             \A c \in EntryCoords(activeDisaster'.affectedTiles) :
                 disasterTiles'[c].recoveryProgress >= disasterTiles[c].recoveryProgress]_vars

\* A tile under active recovery whose sum 1/3 + 5/3 was cut to 1 by the last
\* tick, while another tile of the disaster is still recovering
C20_Witness ==
    /\ lastDisasterCall.op = "simulate" /\ activeDisaster # NoDisaster
    /\ \E c \in RecoverCommands :
          /\ progressShown[c] = <<maxRecoveryTicks, maxRecoveryTicks>>
          /\ ~disasterTiles[c].damaged
    /\ \E c \in EntryCoords(activeDisaster.affectedTiles) :
          disasterTiles[c].recoveryProgress = 2

\* C21: a tile whose entry has totalRecoveryTicks 300 and whose activeRecovery
\* flag is set before its first recovery tick is spliced out by the 60th call of
\* advanceRecovery after the trigger: its progress is below 1 after each of the
\* first 59 calls and 1 after the 60th.
C21_RecoveredOnTick60 ==
    (fnOut.fn = "advanceRecovery" /\ fnIn.totalRecoveryTicks = 300 /\ fnIn.activeRecovery) =>
        /\ fnOut.value.ticks <= 60
        /\ fnOut.value.recovered = (fnOut.value.ticks = 60)
        /\ (fnOut.value.progress = DoubleOne) = (fnOut.value.ticks = 60)

\* The 60th recovery tick of that tile
C21_Witness ==
    /\ fnOut.fn = "advanceRecovery"
    /\ fnIn.totalRecoveryTicks = 300 /\ fnIn.activeRecovery
    /\ fnOut.value.ticks = 60 /\ fnOut.value.recovered

\* C22: the step that triggers a disaster leaves, for some sizeX and sizeY of
\* the configured range, exactly the tiles of the rectangle of that size
\* around the epicenter, clipped to the grid, listed once each, with a
\* totalRecoveryTicks of the configured range, without building, damaged and
\* with recoveryProgress 0; every other tile is as it was.
C22_CreatedAtOnce ==
    [][(activeDisaster = NoDisaster /\ activeDisaster' # NoDisaster) =>
          LET entries == activeDisaster'.affectedTiles
              listed == {<<entries[i].x, entries[i].y>> : i \in 1 .. Len(entries)}
              ex == activeDisaster'.epicenterX
              ey == activeDisaster'.epicenterY
              Extent(sx, sy) ==
                  {c \in (0 .. DisasterCitySize - 1) \X (0 .. DisasterCitySize - 1) :
                      /\ c[1] >= ex - (sx \div 2) /\ c[2] >= ey - (sy \div 2)
                      /\ c[1] <= Max(0, ex - (sx \div 2)) + sx - 1
                      /\ c[2] <= Max(0, ey - (sy \div 2)) + sy - 1}
          IN /\ disasterTiles[<<ex, ey>>].building
             /\ \E sx \in 2 .. 3, sy \in 2 .. 3 : listed = Extent(sx, sy)
             /\ Cardinality(listed) = Len(entries) /\ Len(entries) >= 4
             /\ \A i \in 1 .. Len(entries) :
                   /\ entries[i].totalRecoveryTicks >= minRecoveryTicks
                   /\ entries[i].totalRecoveryTicks <= maxRecoveryTicks
             /\ \A c \in DisasterCoords :
                   IF c \in listed
                   THEN /\ ~disasterTiles'[c].building /\ disasterTiles'[c].damaged
                        /\ disasterTiles'[c].recoveryProgress = 0
                   ELSE disasterTiles'[c] = disasterTiles[c]]_vars

\* A disaster of six tiles has just been triggered at the edge of the grid,
\* where the grid clips its rectangle; three tiles are not affected
C22_Witness ==
    /\ activeDisaster # NoDisaster /\ lastDisasterTick = <<simTime - 1>>
    /\ lastDisasterCall.op = "simulate"
    /\ activeDisaster.epicenterX = DisasterCitySize - 1
    /\ Len(activeDisaster.affectedTiles) = 6
    /\ Cardinality({c \in DisasterCoords : disasterTiles[c].building}) = 3

\* C23: the step that triggers a disaster calls notifyFn once, with
\* affectedTileCount the number of tiles of the affected area and
\* destroyedBuildingCount the number of those tiles that had a building in
\* the state before the step.
C23_NoteCountsDemolished ==
    [][(activeDisaster = NoDisaster /\ activeDisaster' # NoDisaster) =>
          LET entries == activeDisaster'.affectedTiles
              listed == {<<entries[i].x, entries[i].y>> : i \in 1 .. Len(entries)}
              note == disasterNotes'[Len(disasterNotes')]
          IN /\ Len(disasterNotes') = Len(disasterNotes) + 1
             /\ note.kind = "disaster"
             /\ note.affectedTileCount = Cardinality(listed)
             /\ note.destroyedBuildingCount =
                    Cardinality({c \in listed : disasterTiles[c].building})]_vars

\* C24: without recoverTile commands and with ticks that go on, a disaster
\* triggered while maxRecoveryTicks of the modelled ticks are still to come is
\* eventually cleared, and no disaster is active after the maxRecoveryTicks-th
\* tick that follows the tick of its trigger; an active disaster has a non-empty list
\* of affected tiles at any time, so it is cleared by the tick that empties
\* the list; and that tick, and no other step, calls recoveryCompleteFn, once:
\* the notifications alternate between a disaster and its completion.
C24_ClearedInTime ==
    /\ (/\ activeDisaster # NoDisaster
        /\ lastDisasterTick[1] + maxRecoveryTicks < MaxSimTime)
           ~> (activeDisaster = NoDisaster)
    /\ [](activeDisaster # NoDisaster =>
             /\ activeDisaster.affectedTiles # <<>>
             /\ simTime - 1 - lastDisasterTick[1] < maxRecoveryTicks)
    /\ [](\A i \in 1 .. Len(disasterNotes) :
             (disasterNotes[i].kind = "recovered") = (i % 2 = 0))
    /\ [](Len(disasterNotes) % 2 = (IF activeDisaster = NoDisaster THEN 0 ELSE 1))
    /\ [][(Len(disasterNotes') > Len(disasterNotes)
             /\ disasterNotes'[Len(disasterNotes')].kind = "recovered") =>
               /\ Len(disasterNotes') = Len(disasterNotes) + 1
               /\ disasterNotes'[Len(disasterNotes')].tick = simTime
               /\ simTime - lastDisasterTick[1] <= maxRecoveryTicks
               /\ simTime - lastDisasterTick[1] >= minRecoveryTicks
               /\ activeDisaster # NoDisaster /\ activeDisaster' = NoDisaster]_vars

\* With the shipped configuration and the doubles of the code, no entry takes
\* more than maxRecoveryTicks calls of advanceRecovery (an entry of 300 ticks
\* takes 301, one of 600 takes 600); checked under SpecRecovery.
RecoveryWithinShippedMax == fnOut.value.ticks <= ShippedMaxRecoveryTicks

\* A disaster with a tile of the longest recovery has been cleared by the
\* maxRecoveryTicks-th tick after its trigger
C24_Witness ==
    /\ activeDisaster = NoDisaster /\ Len(disasterNotes) = 2
    /\ disasterNotes[2].kind = "recovered"
    /\ disasterNotes[2].tick - disasterNotes[1].tick = maxRecoveryTicks
    /\ simTime = disasterNotes[2].tick + 1

\* C25: a call of recoverTile(x, y) fails and leaves every tile and the
\* service as they were when no disaster is active, when (x, y) is not in the
\* affected list, or when the tile's activeRecovery flag is set already (the
\* flag stays set); any other call succeeds, sets the activeRecovery flag of
\* that tile and changes no recoveryProgress, no other tile and no entry of
\* the list.
C25_RecoverTileOutcome ==
    [][(lastDisasterCall'.op = "recoverTile" /\ lastDisasterCall' # lastDisasterCall) =>
          LET c == lastDisasterCall'.at
          IN /\ UNCHANGED <<simTime, activeDisaster, lastDisasterTick, disasterNotes>>
             /\ IF \/ activeDisaster = NoDisaster
                   \/ \A i \in 1 .. Len(activeDisaster.affectedTiles) :
                         <<activeDisaster.affectedTiles[i].x,
                           activeDisaster.affectedTiles[i].y>> # c
                   \/ disasterTiles[c].activeRecovery
                THEN /\ ~lastDisasterCall'.success
                     /\ disasterTiles' = disasterTiles
                ELSE /\ lastDisasterCall'.success
                     /\ disasterTiles'[c].activeRecovery
                     /\ disasterTiles'[c].recoveryProgress = disasterTiles[c].recoveryProgress
                     /\ disasterTiles'[c].damaged = disasterTiles[c].damaged
                     /\ disasterTiles'[c].building = disasterTiles[c].building
                     /\ \A d \in DisasterCoords \ {c} : disasterTiles'[d] = disasterTiles[d]]_vars

\* A second recoverTile on a tile under active recovery, part-way through its
\* recovery, has failed
C25_Witness ==
    /\ lastDisasterCall.op = "recoverTile" /\ ~lastDisasterCall.success
    /\ activeDisaster # NoDisaster
    /\ lastDisasterCall.at \in EntryCoords(activeDisaster.affectedTiles)
    /\ disasterTiles[lastDisasterCall.at].activeRecovery
    /\ disasterTiles[lastDisasterCall.at].recoveryProgress > 0

\* C26: getDisasterInfo writes nothing: tiles, affected list, disaster,
\* notifications and tick are after the call what they were before; it reports
\* active = false exactly when no disaster is active; and a disaster that is
\* active has a non-empty affected list in every reachable state, so that the
\* average the call reports is a number from 0 to 100 over affectedTileCount
\* >= 1 tiles.
C26_InfoReadOnly ==
    /\ [](activeDisaster # NoDisaster => Len(activeDisaster.affectedTiles) > 0)
    /\ [][(lastDisasterCall'.op = "getDisasterInfo" /\ lastDisasterCall' # lastDisasterCall) =>
            /\ UNCHANGED <<disasterTiles, simTime, activeDisaster, lastDisasterTick,
                           disasterNotes>>
            /\ lastDisasterCall'.info.active = (activeDisaster # NoDisaster)
            /\ lastDisasterCall'.info.active =>
                  /\ lastDisasterCall'.info.affectedTileCount >= 1
                  /\ lastDisasterCall'.info.averageRecoveryProgress \in 0 .. 100]_vars

\* getDisasterInfo has reported a disaster that is part-way through its
\* recovery, with a tile under active recovery
C26_Witness ==
    /\ lastDisasterCall.op = "getDisasterInfo"
    /\ lastDisasterCall.info.active
    /\ lastDisasterCall.info.activeRecoveryCount >= 1
    /\ lastDisasterCall.info.averageRecoveryProgress \in 1 .. 99

\* C27: a resolver in the waiter queue has its failsafe timer pending, set for
\* no more than the 10 s, whatever the flags are and whoever else waits; and
\* under the scheduling of the runtime it leaves the queue, which it does
\* resolved only (the continuation of its caller becomes a microtask): no
\* waitForSilence promise is pending longer than 10 s.
C27_ResolvedWithinFailsafe ==
    /\ [](\A id \in WaiterIds(speech) :
             id \in speech.timeouts /\ speech.elapsed[id] <= FailsafeDelay)
    /\ \A id \in 1 .. MaxPendingWaits :
          (id \in WaiterIds(speech)) ~> (id \notin WaiterIds(speech))
    /\ [][WaiterIds(speech) \ WaiterIds(speech') # {} =>
             Len(speech'.microtasks) >=
                 Len(speech.microtasks) + Cardinality(WaiterIds(speech) \ WaiterIds(speech'))]_vars

\* The mayor's wait has been resolved by its failsafe after the full delay
\* while the citizen, who held the flag, is still emitting
C27_Witness ==
    /\ failsafeFired
    /\ citizenEmitting > 0
    /\ speech.waiters = <<>>
    /\ speech.microtasks = <<"mayor">>
    /\ ~speech.mayorSpeaking /\ ~speech.citizenSpeaking

\* C28: the step in which a failsafe timer finds its resolver still in the
\* queue leaves both flags false and the queue empty, every resolver that was
\* queued having been resolved in the order of the queue.
C28_FailsafeResolvesAll ==
    [][(\E id \in speech.timeouts \ speech'.timeouts : id \in WaiterIds(speech)) =>
          /\ ~speech'.mayorSpeaking /\ ~speech'.citizenSpeaking
          /\ speech'.waiters = <<>>
          /\ Len(speech'.microtasks) = Len(speech.microtasks) + Len(speech.waiters)]_vars

\* C29: a resolver leaves the waiter queue either in a step that leaves both
\* speaking flags false while its own timer is still pending (it was flushed
\* after the flag that blocked it was cleared), or by its own failsafe timer,
\* FailsafeDelay after it was queued: while a flag is set, no wait is resolved
\* before its 10 s have elapsed.
C29_ResolvedAfterClearingOrDelay ==
    [][\A id \in WaiterIds(speech) \ WaiterIds(speech') :
          IF id \in speech'.timeouts
          THEN /\ ~speech'.mayorSpeaking /\ ~speech'.citizenSpeaking
               /\ speech'.elapsed[id] = speech.elapsed[id]
          ELSE speech.elapsed[id] = FailsafeDelay]_vars

\* The citizen's wait, queued while the mayor was speaking, has been flushed by
\* the end of the mayor's playback before its 10 s were over; its timer is
\* still pending
C29_Witness ==
    /\ ~failsafeFired
    /\ speech.waiters = <<>>
    /\ speech.microtasks = <<"citizen">>
    /\ ~speech.mayorSpeaking /\ ~speech.citizenSpeaking
    /\ \E id \in speech.timeouts : speech.elapsed[id] \in 1 .. FailsafeDelay - 1

\* C30: a step that is a call of setCitizenSpeaking(false) (the finally block
\* of speak) or of setMayorSpeaking(false) (the end of a playback with nothing
\* queued) clears that flag, and flushes the waiter queue exactly when it
\* leaves both flags false: then the queue is empty after the call and every
\* resolver that was queued has been resolved, in order; when the other flag
\* is still set, the queue and the microtasks are what they were.
C30_ClearingFlushesWhenSilent ==
    [][/\ citizenEmitting' = citizenEmitting - 1 =>
            /\ ~speech'.citizenSpeaking
            /\ speech'.mayorSpeaking = speech.mayorSpeaking
            /\ IF speech.mayorSpeaking
               THEN /\ speech'.waiters = speech.waiters
                    /\ speech'.microtasks = speech.microtasks
               ELSE /\ speech'.waiters = <<>>
                    /\ speech'.microtasks = speech.microtasks \o
                           [i \in 1 .. Len(speech.waiters) |-> speech.waiters[i].who]
       /\ (playingSources' = playingSources - 1 /\ playbackQueue = 0) =>
            /\ ~speech'.mayorSpeaking
            /\ speech'.citizenSpeaking = speech.citizenSpeaking
            /\ IF speech.citizenSpeaking
               THEN /\ speech'.waiters = speech.waiters
                    /\ speech'.microtasks = speech.microtasks
               ELSE /\ speech'.waiters = <<>>
                    /\ speech'.microtasks = speech.microtasks \o
                           [i \in 1 .. Len(speech.waiters) |-> speech.waiters[i].who]]_vars

\* The end of the citizen's utterance has flushed the mayor's wait, which was
\* queued while the citizen spoke
C30_Witness ==
    /\ ~failsafeFired
    /\ citizenEmitting = 0 /\ isPlaying /\ playbackQueue > 0
    /\ speech.waiters = <<>>
    /\ speech.microtasks = <<"mayor">>
    /\ ~speech.mayorSpeaking /\ ~speech.citizenSpeaking
    /\ speech.timeouts # {}

\* The statement as the specification of the coordinator has it: every step
\* that is a call of setCitizenSpeaking(false) or of setMayorSpeaking(false),
\* and every step in which a failsafe timer forces both flags to false, leaves
\* the waiter queue empty, every resolver that was queued having been
\* resolved.
C30_ClearingFlushes ==
    [][(\/ citizenEmitting' = citizenEmitting - 1
        \/ playingSources' = playingSources - 1 /\ playbackQueue = 0
        \/ \E id \in speech.timeouts \ speech'.timeouts : id \in WaiterIds(speech)) =>
          /\ speech'.waiters = <<>>
          /\ Len(speech'.microtasks) = Len(speech.microtasks) + Len(speech.waiters)]_vars

\* C31: the resolvers that leave the waiter queue in a step are the first of
\* the queue, and their callers' continuations are queued as microtasks in the
\* order of the queue; and a call of waitForSilence is resolved at once (its
\* continuation is queued without the resolver having been in the queue) only
\* in a step that leaves no earlier caller in the queue, behind the
\* continuations of the callers flushed in that step.
C31_QueueIsFifo ==
    [][LET old == speech.waiters
           left == {i \in 1 .. Len(old) : old[i].id \notin WaiterIds(speech')}
           grown == Len(speech'.microtasks) - Len(speech.microtasks)
       IN /\ \A i \in left : \A j \in 1 .. i : j \in left
          /\ left # {} =>
                /\ grown >= Cardinality(left)
                /\ \A i \in left :
                      speech'.microtasks[Len(speech.microtasks) + i] = old[i].who
          /\ grown > Cardinality(left) =>
                /\ left = 1 .. Len(old)
                /\ speech'.waiters = <<>>]_vars

\* Two calls that were queued one behind the other while the mayor played have
\* been flushed together, the earlier caller's continuation first
C31_Witness ==
    /\ ~failsafeFired
    /\ speech.waiters = <<>>
    /\ speech.microtasks = <<"citizen", "citizen">>
    /\ Cardinality(speech.timeouts) = 2
    /\ ~speech.mayorSpeaking /\ ~speech.citizenSpeaking

\* C32: on every tick, onCityChanged followed by DisasterService.simulate
\* leaves the same engine state, the same tiles and the same notifications as
\* simulate followed by onCityChanged.
C32_StepsCommute ==
    fnOut.fn = "tick" => fnOut.value.requestFirst = fnOut.value.disasterFirst

\* C33: no failure of the notification sink or of the evaluation callback is
\* fatal to the request lifecycle: no tick passes such a failure on to the tick
\* driver, a tick whose notification or callback failed does not leave the
\* engine in a phase it cannot leave, and in every non-idle phase the way out
\* is armed (request_active: the expiry timer is pending; settling: ticks
\* remain; evaluating: the callback's promise is awaited)
C33_FailuresNotFatal ==
    /\ lastCall # "uncaught"
    /\ phase = "request_active" =>
          expiryTimeoutId # 0 /\ \E t \in timers : t.id = expiryTimeoutId
    /\ phase = "settling" => settleTicksRemaining >= 1
    /\ phase = "evaluating" => evalAwait
    /\ (lastEval # NoEval /\ lastEval.callback = "threw") => phase = "idle"
    /\ (lastNotify = "rejected" /\ lastEval = NoEval) =>
          \/ phase = "request_active" /\ notes[Len(notes)].kind = "new"
          \/ phase = "idle" /\ notes[Len(notes)].kind = "failed" /\ currentRequest = 0

\* The tick that ends settling: the sink fails on 'fulfilled', the evaluation
\* callback throws, and the engine is idle
C33_Witness ==
    /\ lastNotify = "rejected"
    /\ lastEval # NoEval
    /\ lastEval.callback = "threw"
    /\ phase = "idle"
    /\ currentRequest = 0

\* C34: the notifications of the engine follow the requests one lifecycle after
\* the other. The k-th request has exactly one 'new' notification, sent when it
\* is created and carrying the request's message as its spoken text, and after
\* it exactly one terminal notification: 'fulfilled' when the request was
\* resolved and evaluated, 'failed' when it expired, never both; the 'new' of
\* the next request comes after the terminal notification of the one before.
C34_OneNewOneTerminal ==
    /\ \A n \in 1 .. Len(notes) :
          /\ notes[n].req = (n + 1) \div 2
          /\ notes[n].req \in 1 .. Len(requests)
          /\ (n % 2) = 1 =>
                /\ notes[n].kind = "new"
                /\ notes[n].spoken = RequestMessage(requests[notes[n].req].type)
                /\ notes[n].spoken # NoSpokenText
          /\ (n % 2) = 0 =>
                /\ notes[n].kind \in {"fulfilled", "failed"}
                /\ notes[n].kind = "fulfilled" <=> requests[notes[n].req].status = "fulfilled"
                /\ notes[n].kind = "failed" <=> requests[notes[n].req].status = "expired"
    /\ Len(notes) = IF phase \in {"request_active", "settling"}
                    THEN 2 * Len(requests) - 1
                    ELSE 2 * Len(requests)
    /\ \A i \in 1 .. Len(requests) :
          requests[i].status = "active" <=> (phase = "request_active" /\ i = Len(requests))

\* Two lifecycles have ended, the first by expiry and the second by evaluation
C34_Witness ==
    /\ Len(notes) = 4
    /\ notes[1].kind = "new" /\ notes[2].kind = "failed"
    /\ notes[3].kind = "new" /\ notes[4].kind = "fulfilled"
    /\ phase = "idle"

\* C35: a request is fulfilled only by a resolved signal that was issued for
\* that same request: a step that takes a request from 'active' to 'fulfilled'
\* runs a mark_request_resolved call issued while that request was the current
\* one
C35_FulfilledByOwnSignal ==
    [][\A i \in 1 .. Len(requests) :
          (requests[i].status = "active" /\ requests'[i].status = "fulfilled") =>
              /\ toolCall.state = "sent"
              /\ toolCall.issuedFor = i]_vars

\* C36: the ideal criterion of checkRequestStatus means that the deficiency is
\* gone: on a snapshot on which detectProblems reports the category of the
\* request, checkRequestStatus with the world unchanged since the request was
\* created (now = snapshotBefore) reports resolved = false
C36_UnresolvedAtCreation ==
    (/\ fnOut.fn = "checkRequestStatus"
     /\ fnIn.cur = fnIn.before
     /\ \E i \in 1 .. Len(DetectProblems(fnIn.before)) :
           DetectProblems(fnIn.before)[i] = fnIn.type)
        => ~fnOut.value.resolved

\* C37: checkRequestStatus and the evaluation agree: when checkRequestStatus
\* reports resolved = true on a world and the evaluation runs on that same
\* world (it is unchanged from the check through the settle ticks, so the
\* snapshot "after" of the evaluation is the snapshot "now" of the check), the
\* evaluation computes +10
C37_ResolvedEvaluatesToTen ==
    (/\ fnOut.fn = "computeHappinessDelta"
     /\ CheckRequestStatus("request_active", 1, <<CreateRequest(fnIn.type, 1)>>,
                           fnIn.before, fnIn.cur).resolved)
        => fnOut.value = 10

\* C38: between operations the fields of the engine agree with its phase:
\* currentRequest is non-null exactly when the phase is not idle; snapshotBefore
\* is non-null exactly when currentRequest is; the current request has status
\* 'active' in request_active and 'fulfilled' in settling and evaluating; the
\* expiry timer is armed exactly in request_active; getActiveRequests returns
\* the current request in request_active and nothing otherwise.
C38_FieldsFollowPhase ==
    /\ currentRequest # 0 <=> phase # "idle"
    /\ snapshotBefore # NoSnapshot <=> currentRequest # 0
    /\ phase = "request_active" => requests[currentRequest].status = "active"
    /\ phase \in {"settling", "evaluating"} => requests[currentRequest].status = "fulfilled"
    /\ expiryTimeoutId # 0 <=> phase = "request_active"
    /\ (\E t \in timers : t.id = expiryTimeoutId) <=> phase = "request_active"
    /\ \A t \in timers : t.id = expiryTimeoutId
    /\ GetActiveRequests(requests) = IF phase = "request_active"
                                     THEN <<requests[currentRequest]>>
                                     ELSE <<>>

\* The second request is being evaluated (its callback's promise is awaited)
\* after the first one has expired
C38_Witness ==
    /\ phase = "evaluating"
    /\ evalAwait
    /\ currentRequest = 2
    /\ requests[1].status = "expired"

\* C39: every waitForSilence promise is resolved exactly once. A failsafe timer
\* whose resolver has already been called by a flush changes nothing when it
\* runs: no flag is cleared, nobody is resolved. A failsafe timer whose resolver
\* is still queued resolves that one resolver. Every resolver that leaves the
\* queue gets one continuation (a step that flushes may also queue the
\* continuation of the caller's own waitForSilence, resolved at once).
C39_ResolvedOnce ==
    [][LET left == WaiterIds(speech) \ WaiterIds(speech')
           fired == speech.timeouts \ speech'.timeouts
           grown == Len(speech'.microtasks) - Len(speech.microtasks)
       IN /\ \A id \in fired :
                IF id \in WaiterIds(speech)
                THEN left = {id} /\ grown = 1
                ELSE /\ speech'.mayorSpeaking = speech.mayorSpeaking
                     /\ speech'.citizenSpeaking = speech.citizenSpeaking
                     /\ speech'.waiters = speech.waiters
                     /\ speech'.microtasks = speech.microtasks
                     /\ failsafeFired' = failsafeFired
          /\ left # {} => grown \in {Cardinality(left), Cardinality(left) + 1}
          /\ \A i, j \in 1 .. Len(speech'.waiters) :
                speech'.waiters[i].id = speech'.waiters[j].id => i = j]_vars

\* The failsafe timer of a wait that a flush had resolved has run while the
\* citizen was speaking: the wait numbered 2 was set while timer 1 was pending,
\* timer 1 is gone, no failsafe has forced silence, and the citizen's flag is
\* still set
C39_Witness ==
    /\ ~failsafeFired
    /\ speech.timeouts = {2}
    /\ 2 \in WaiterIds(speech)
    /\ speech.citizenSpeaking

\* C40: the mark_request_resolved tool reports success only when the engine
\* accepted the signal: a step in which the handler returns success takes the
\* engine from request_active to settling (with the full count of settle ticks,
\* after which the evaluation follows)
C40_SuccessMeansAccepted ==
    [][(toolCall.state = "sent" /\ toolCall'.state = "returned"
            /\ toolCall'.result.success) =>
          /\ phase = "request_active"
          /\ phase' = "settling"
          /\ settleTicksRemaining' = SETTLE_TICKS]_vars
====
